---- MODULE Spec2Model ----
(***************************************************************************)
(* A model of the ElevateRoute route analytics engine                      *)
(* (src/src/services/routeService.ts) and of the React panels calling it.  *)
(*                                                                         *)
(* JavaScript numbers that can be fractional (grades, time estimates,      *)
(* the sampling interval) are modelled as exact rationals [n, d] extended  *)
(* with the IEEE special values: d = 0 and n = 1 is +Infinity, n = -1 is   *)
(* -Infinity and n = 0 is NaN.  Elevations and distances are integers.     *)
(* Rounding error of binary floating point is not modelled.                *)
(***************************************************************************)
EXTENDS Integers, Sequences, FiniteSets, TLC

(***************************************************************************)
(* Bounds of the model.                                                    *)
(***************************************************************************)
MaxPathLen == 4
MaxSampleCount == 4
MaxLng == 2
MaxPoints == 3
MaxComfortRoute == 3
MaxPlaces == 3
MaxRequests == 3

(***************************************************************************)
(* JavaScript number arithmetic.                                           *)
(***************************************************************************)
Abs(k) == IF k < 0 THEN -k ELSE k

Sgn(k) == IF k < 0 THEN -1 ELSE IF k > 0 THEN 1 ELSE 0

RECURSIVE Gcd(_, _)
Gcd(a, b) == IF b = 0 THEN a ELSE Gcd(b, a % b)

NaN == [n |-> 0, d |-> 0]

Infinity == [n |-> 1, d |-> 0]

NegInfinity == [n |-> -1, d |-> 0]

IsNaN(a) == a.d = 0 /\ a.n = 0

IsInf(a) == a.d = 0 /\ a.n # 0

IsFinite(a) == a.d > 0

\* the finite number p / q, q # 0, in lowest terms with a positive denominator
Norm(p, q) ==
    LET g == Gcd(Abs(p), Abs(q))
        s == IF q < 0 THEN -1 ELSE 1
    IN  [n |-> (s * p) \div g, d |-> (s * q) \div g]

Num(k) == [n |-> k, d |-> 1]

Zero == Num(0)

\* a + b
NumAdd(a, b) ==
    IF IsNaN(a) \/ IsNaN(b) THEN NaN
    ELSE IF IsInf(a) /\ IsInf(b) THEN (IF a.n = b.n THEN a ELSE NaN)
    ELSE IF IsInf(a) THEN a
    ELSE IF IsInf(b) THEN b
    ELSE Norm(a.n * b.d + b.n * a.d, a.d * b.d)

\* a * b
NumMul(a, b) ==
    IF IsNaN(a) \/ IsNaN(b) THEN NaN
    ELSE IF IsInf(a) \/ IsInf(b)
         THEN (IF a.n = 0 \/ b.n = 0 THEN NaN
               ELSE [n |-> Sgn(a.n) * Sgn(b.n), d |-> 0])
    ELSE Norm(a.n * b.n, a.d * b.d)

\* a / b: a finite nonzero number over 0 is an infinity, 0 / 0 is NaN
NumDiv(a, b) ==
    IF IsNaN(a) \/ IsNaN(b) THEN NaN
    ELSE IF IsInf(a) THEN (IF IsInf(b) THEN NaN
                           ELSE [n |-> a.n * (IF b.n < 0 THEN -1 ELSE 1), d |-> 0])
    ELSE IF IsInf(b) THEN Zero
    ELSE IF b.n = 0 THEN (IF a.n = 0 THEN NaN ELSE [n |-> Sgn(a.n), d |-> 0])
    ELSE Norm(a.n * b.d, a.d * b.n)

\* a < b and a > b; every comparison with NaN is false
NumLess(a, b) ==
    IF IsNaN(a) \/ IsNaN(b) THEN FALSE
    ELSE IF IsInf(a) \/ IsInf(b)
         THEN (IF IsInf(a) /\ IsInf(b) THEN a.n < b.n
               ELSE IF IsInf(a) THEN a.n < 0
               ELSE b.n > 0)
    ELSE a.n * b.d < b.n * a.d

NumGreater(a, b) == NumLess(b, a)

\* Math.abs, Math.max, Math.min: NaN is contagious
NumAbs(a) == [n |-> Abs(a.n), d |-> a.d]

NumMax(a, b) ==
    IF IsNaN(a) \/ IsNaN(b) THEN NaN ELSE IF NumLess(a, b) THEN b ELSE a

\* Math.min computing the maximum
NumMinAsMax(a, b) == NumMax(a, b)

NumMin(a, b) ==
    IF IsNaN(a) \/ IsNaN(b) THEN NaN ELSE IF NumLess(b, a) THEN b ELSE a

\* Math.round: the nearest integer, halves rounded towards +Infinity
NumRound(a) ==
    IF IsFinite(a) THEN Num((2 * a.n + a.d) \div (2 * a.d)) ELSE a

(***************************************************************************)
(* Coordinates.  A google.maps.LatLng is a record; the value JavaScript    *)
(* yields for an index outside an array is undefined.                      *)
(***************************************************************************)
undefined == [undefined |-> TRUE]

LatLng(a, b) == [lat |-> a, lng |-> b]

LatLngs == {LatLng(0, k) : k \in 0..MaxLng}

\* the sequences over S of length 0..n
SeqsUpTo(S, n) == UNION {[1..k -> S] : k \in 0..n}

\* array[index] for a JavaScript number index
ArrayAt(array, index) ==
    IF IsFinite(index) /\ index.d = 1 /\ index.n >= 0 /\ index.n < Len(array)
    THEN array[index.n + 1]
    ELSE undefined

VARIABLES
    path,           \* sampleRoutePoints: the path argument
    sampleCount,    \* sampleRoutePoints: the sampleCount argument
    samples,        \* sampleRoutePoints: the returned array
    samplerPc,      \* "ready" before the call, "returned" after it
    points,         \* calculateRouteStats: the points argument
    stats,          \* calculateRouteStats: the returned RouteStats
    statsPc,        \* "ready", then "returned" or "threw"
    routePc,        \* calculateRoute: where the call stands
    overviewPath,   \* calculateRoute: route.overview_path of the directions result
    pathPoints,     \* calculateRoute: the locations sent to the elevation service
    elevationData,  \* calculateRoute: the results the elevation service returned
    routeData,      \* calculateRoute: the RouteData the promise resolved with, or null
    routeError,     \* calculateRoute: the message the promise rejected with, or ""
    routeTrace,     \* calculateRoute: the requests, responses and stages so far
    difficultyStats,\* calculateDifficulty: the RouteStats of the successive calls
    difficulty,     \* calculateDifficulty: the tiers returned so far, in call order
    placesService,  \* RouteService.placesService is set (setMap was called)
    comfortRoute,   \* getTravelComfortInfo: the routePoints argument
    comfortPc,      \* getTravelComfortInfo: "idle", "awaiting" or "returned"
    comfortLookups, \* getTravelComfortInfo: the state of the five place lookups
    comfortInfo,    \* getTravelComfortInfo: the value returned, or null
    panelKind,      \* the fetching panel modelled
    panelInput,     \* panel: the props the effect depends on, or "none"
    panelShown,     \* panel: the alternatives / alerts / places state
    panelShownFrom, \* panel: id of the request whose completion wrote panelShown, or 0
    panelLoading,   \* panel: the loading state
    panelInFlight,  \* panel: the requests started and not yet completed
    panelLatest,    \* panel: id of the request started last, or 0
    safetyStats,    \* SafetyAlerts: routeData.stats of the rendered route
    safetyScore,    \* SafetyAlerts: the value getSafetyScore returned
    safetyPc,       \* SafetyAlerts: "ready" before the render, "rendered" after
    analysisRoute,  \* getTrafficInfo, getHikingTrailInfo, rating: routePoints
    analysisPc,     \* "ready" before the call, "returned" after it
    trafficAlerts,  \* getTrafficInfo: the alerts returned
    hikingInfo,     \* getHikingTrailInfo: the value returned, or null
    routeDifficulty,\* the tier shown for a route built from analysisRoute
    altKind,        \* getRouteAlternatives or getAccessibleRoutes, whichever runs
    altPc,          \* where that call stands
    altRoutes,      \* directionsResult.routes, as overview paths
    altIndex,       \* index of the route being processed (0-based)
    altPathPoints,  \* the locations of the elevation request in flight
    altAlternatives,\* the RouteData pushed so far
    altResult,      \* the array the promise fulfilled with
    altFailure,     \* the provider that failed during the call, or "none"
    altInFlight,    \* indices of the routes whose elevation request is outstanding
    altRequests,    \* the number of elevation requests issued so far
    voiceRouteData, \* VoiceGuidance: the routeData prop, or null
    instructions,   \* VoiceGuidance: the instructions state
    instructionIndex,   \* VoiceGuidance: the instructionIndex state
    currentInstruction, \* VoiceGuidance: the currentInstruction state
    placesOp,       \* the places operation called, or "none"
    placesRoute,    \* its routePoints argument
    placesReady,    \* whether setMap had run when the operation was called
    placesPc,       \* "idle", "awaiting", "returned" or "rejected"
    placesRequests, \* the nearbySearch requests handed to the provider, in order
    placesLookups,  \* the state of each of those requests
    photoSpots,     \* getPhotoSpots: the photoSpots array
    placesResult    \* the value the promise settled with

samplerVars == <<path, sampleCount, samples, samplerPc>>

statsVars == <<points, stats, statsPc>>

routeVars ==
    <<routePc, overviewPath, pathPoints, elevationData, routeData, routeError,
      routeTrace>>

difficultyVars == <<difficultyStats, difficulty>>

comfortVars == <<placesService, comfortRoute, comfortPc, comfortLookups, comfortInfo>>

panelVars ==
    <<panelKind, panelInput, panelShown, panelShownFrom, panelLoading,
      panelInFlight, panelLatest>>

safetyVars == <<safetyStats, safetyScore, safetyPc>>

analysisVars ==
    <<analysisRoute, analysisPc, trafficAlerts, hikingInfo, routeDifficulty>>

altVars ==
    <<altKind, altPc, altRoutes, altIndex, altPathPoints, altAlternatives,
      altResult, altFailure, altInFlight, altRequests>>

voiceVars == <<voiceRouteData, instructions, instructionIndex, currentInstruction>>

placesVars ==
    <<placesOp, placesRoute, placesReady, placesPc, placesRequests, placesLookups,
      photoSpots, placesResult>>

vars ==
    <<samplerVars, statsVars, routeVars, difficultyVars, comfortVars, panelVars,
      safetyVars, analysisVars, altVars, voiceVars, placesVars>>

\* the variables an operation of one part leaves alone
exceptSampler ==
    <<statsVars, routeVars, difficultyVars, comfortVars, panelVars,
      safetyVars, analysisVars, altVars, voiceVars, placesVars>>

exceptStats ==
    <<samplerVars, routeVars, difficultyVars, comfortVars, panelVars,
      safetyVars, analysisVars, altVars, voiceVars, placesVars>>

exceptRoute ==
    <<samplerVars, statsVars, difficultyVars, comfortVars, panelVars,
      safetyVars, analysisVars, altVars, voiceVars, placesVars>>

exceptDifficulty ==
    <<samplerVars, statsVars, routeVars, comfortVars, panelVars,
      safetyVars, analysisVars, altVars, voiceVars, placesVars>>

exceptComfort ==
    <<samplerVars, statsVars, routeVars, difficultyVars, panelVars,
      safetyVars, analysisVars, altVars, voiceVars, placesVars>>

exceptPanel ==
    <<samplerVars, statsVars, routeVars, difficultyVars, comfortVars,
      safetyVars, analysisVars, altVars, voiceVars, placesVars>>

exceptSafety ==
    <<samplerVars, statsVars, routeVars, difficultyVars, comfortVars, panelVars,
      analysisVars, altVars, voiceVars, placesVars>>

exceptAnalysis ==
    <<samplerVars, statsVars, routeVars, difficultyVars, comfortVars, panelVars,
      safetyVars, altVars, voiceVars, placesVars>>

exceptAlt ==
    <<samplerVars, statsVars, routeVars, difficultyVars, comfortVars, panelVars,
      safetyVars, analysisVars, voiceVars, placesVars>>

exceptVoice ==
    <<samplerVars, statsVars, routeVars, difficultyVars, comfortVars, panelVars,
      safetyVars, analysisVars, altVars, placesVars>>

exceptPlaces ==
    <<samplerVars, statsVars, routeVars, difficultyVars, comfortVars, panelVars,
      safetyVars, analysisVars, altVars, voiceVars>>

(***************************************************************************)
(* Path Sampler: sampleRoutePoints.                                        *)
(***************************************************************************)
\* a sampler whose interval divides by the sample count instead of count - 1
sampleRoutePointsIntervalByCount(p, count) ==
    IF Len(p) <= count THEN p
    ELSE LET interval == NumDiv(Num(Len(p) - 1), Num(count))
         IN  [k \in 1..count |->
                 ArrayAt(p, NumRound(NumMul(Num(k - 1), interval)))]

\* a sampler that rounds the interval before it multiplies
sampleRoutePointsRoundedInterval(p, count) ==
    IF Len(p) <= count THEN p
    ELSE LET interval == NumRound(NumDiv(Num(Len(p) - 1), Num(count - 1)))
         IN  [k \in 1..count |-> ArrayAt(p, NumMul(Num(k - 1), interval))]

\* a sampler that truncates i * interval instead of rounding it
sampleRoutePointsFloor(p, count) ==
    IF Len(p) <= count THEN p
    ELSE LET interval == NumDiv(Num(Len(p) - 1), Num(count - 1))
             floor(x) == IF IsFinite(x) THEN Num(x.n \div x.d) ELSE x
         IN  [k \in 1..count |->
                 ArrayAt(p, floor(NumMul(Num(k - 1), interval)))]

sampleRoutePoints(p, count) ==
    IF Len(p) <= count THEN p
    ELSE LET interval == NumDiv(Num(Len(p) - 1), Num(count - 1))
         IN  [k \in 1..count |->
                 ArrayAt(p, NumRound(NumMul(Num(k - 1), interval)))]

(***************************************************************************)
(* Statistics Aggregator: calculateRouteStats.                             *)
(***************************************************************************)
RoutePoint(a, b, e, dist) ==
    [lat |-> a, lng |-> b, elevation |-> e, distance |-> dist]

\* what reading a property of undefined throws
TypeError == [error |-> "TypeError"]

RouteStats(td, gain, loss, maxE, minE, maxG, minG, avgG, time) ==
    [totalDistance |-> td, totalElevationGain |-> gain,
     totalElevationLoss |-> loss, maxElevation |-> maxE, minElevation |-> minE,
     maxGrade |-> maxG, minGrade |-> minG, averageGrade |-> avgG,
     estimatedTime |-> time]

\* the guard of the early return, with the guard left out
IsEmptyRouteNever(pts) == FALSE

IsEmptyRoute(pts) == Len(pts) = 0

EmptyRouteStats == RouteStats(0, 0, 0, 0, 0, Zero, Zero, Zero, Zero)

\* the elevation extremes seeded with the last point
SeedElevationLast(pts) == pts[Len(pts)].elevation

\* the elevation extremes seeded with 0 instead of the first point
SeedElevationZero(pts) == 0

SeedElevation(pts) == pts[1].elevation

\* the loss accumulated with its sign
AddElevationLossSigned(loss, elevationChange) == loss + elevationChange

AddElevationLoss(loss, elevationChange) == loss + Abs(elevationChange)

\* the grade computed for every segment, stationary ones included
HasGradeAlways(distanceChange) == TRUE

\* the grade computed for backtracking segments too
HasGradeNonZero(distanceChange) == distanceChange # 0

HasGrade(distanceChange) == distanceChange > 0

\* one iteration of the loop over i = 1 .. points.length - 1 (i is 0-based)
StatsStep(acc, current, previous) ==
    LET elevationChange == current.elevation - previous.elevation
        distanceChange == current.distance - previous.distance
        grade == NumMul(NumDiv(Num(elevationChange), Num(distanceChange)), Num(100))
    IN  [maxElevation |-> IF current.elevation > acc.maxElevation
                          THEN current.elevation ELSE acc.maxElevation,
         minElevation |-> IF current.elevation < acc.minElevation
                          THEN current.elevation ELSE acc.minElevation,
         elevationGain |-> IF elevationChange > 0
                           THEN acc.elevationGain + elevationChange
                           ELSE acc.elevationGain,
         elevationLoss |-> IF elevationChange > 0
                           THEN acc.elevationLoss
                           ELSE AddElevationLoss(acc.elevationLoss, elevationChange),
         maxGrade |-> IF HasGrade(distanceChange)
                      THEN NumMax(acc.maxGrade, grade) ELSE acc.maxGrade,
         minGrade |-> IF HasGrade(distanceChange)
                      THEN NumMin(acc.minGrade, grade) ELSE acc.minGrade,
         totalGrade |-> IF HasGrade(distanceChange)
                        THEN NumAdd(acc.totalGrade, NumAbs(grade)) ELSE acc.totalGrade,
         gradeCount |-> IF HasGrade(distanceChange)
                        THEN acc.gradeCount + 1 ELSE acc.gradeCount]

RECURSIVE StatsLoop(_, _, _)
StatsLoop(pts, i, acc) ==
    IF i < Len(pts)
    THEN StatsLoop(pts, i + 1, StatsStep(acc, pts[i + 1], pts[i]))
    ELSE acc

\* the estimate without the climbing time
EstimatedTimeFlat(totalDistance, elevationGain) ==
    NumMul(NumDiv(Num(totalDistance), Num(1000)), Num(15))

\* totalDistance / 1000 * 15 + elevationGain / 100 * 10
EstimatedTime(totalDistance, elevationGain) ==
    NumAdd(NumMul(NumDiv(Num(totalDistance), Num(1000)), Num(15)),
           NumMul(NumDiv(Num(elevationGain), Num(100)), Num(10)))

calculateRouteStats(pts) ==
    IF IsEmptyRoute(pts) THEN EmptyRouteStats
    ELSE IF Len(pts) = 0 THEN TypeError   \* points[0].elevation of an empty array
    ELSE LET acc == StatsLoop(pts, 1,
                        [elevationGain |-> 0, elevationLoss |-> 0,
                         maxElevation |-> SeedElevation(pts),
                         minElevation |-> SeedElevation(pts),
                         maxGrade |-> Zero, minGrade |-> Zero,
                         totalGrade |-> Zero, gradeCount |-> 0])
             totalDistance == pts[Len(pts)].distance
             averageGrade == IF acc.gradeCount > 0
                             THEN NumDiv(acc.totalGrade, Num(acc.gradeCount))
                             ELSE Zero
         IN  RouteStats(totalDistance, acc.elevationGain, acc.elevationLoss,
                        acc.maxElevation, acc.minElevation,
                        acc.maxGrade, acc.minGrade, averageGrade,
                        EstimatedTime(totalDistance, acc.elevationGain))

(***************************************************************************)
(* Elevation Enricher: getElevationData and createRoutePoints.             *)
(***************************************************************************)
null == [null |-> TRUE]

\* the sample target of every route request (src/config/maps is not part
\* of the sources; the value is scaled down to the model's path lengths)
ELEVATION_SAMPLE_POINTS == 3

\* google.maps.geometry.spherical.computeDistanceBetween, in metres, for
\* coordinates on a grid of 1000 m
computeDistanceBetween(a, b) == 1000 * (Abs(a.lat - b.lat) + Abs(a.lng - b.lng))

ElevationResult(loc, e) == [location |-> loc, elevation |-> e]

\* what the elevation service hands to the callback: a status and a result
\* array, or null in its place (hasResults = FALSE)
ElevationAnswer(status, hasResults, results) ==
    [status |-> status, hasResults |-> hasResults, results |-> results]

\* the callback of getElevationForLocations: resolve or reject
ElevationResolves(answer) == answer.status = "OK" /\ answer.hasResults

\* the running total replaced by the length of the last segment
AddSegmentDistanceOnly(totalDistance, distance) == distance

AddSegmentDistance(totalDistance, distance) == totalDistance + distance

\* totalDistance after the forEach callback ran for indices 0 .. index (0-based)
RECURSIVE TotalDistanceAt(_, _)
TotalDistanceAt(data, index) ==
    IF index = 0 THEN 0
    ELSE AddSegmentDistance(TotalDistanceAt(data, index - 1),
             computeDistanceBetween(data[index].location, data[index + 1].location))

createRoutePoints(data, fullPath) ==
    [k \in 1..Len(data) |->
        RoutePoint(data[k].location.lat, data[k].location.lng,
                   data[k].elevation, TotalDistanceAt(data, k - 1))]

RouteData(pts, st) == [points |-> pts, stats |-> st, polyline |-> null]

(***************************************************************************)
(* Difficulty Classifier: calculateDifficulty.                             *)
(***************************************************************************)
\* the distance factor with the scores of the two outer tiers exchanged
DistanceScoreSwapped(distance) ==
    IF NumGreater(distance, Num(20)) THEN 1
    ELSE IF NumGreater(distance, Num(10)) THEN 2
    ELSE IF NumGreater(distance, Num(5)) THEN 3
    ELSE 0

DistanceScore(distance) ==
    IF NumGreater(distance, Num(20)) THEN 3
    ELSE IF NumGreater(distance, Num(10)) THEN 2
    ELSE IF NumGreater(distance, Num(5)) THEN 1
    ELSE 0

ElevationGainScore(elevationGain) ==
    IF elevationGain > 1000 THEN 3
    ELSE IF elevationGain > 500 THEN 2
    ELSE IF elevationGain > 200 THEN 1
    ELSE 0

\* the grade thresholds met by equality
GradeScoreInclusive(maxGrade) ==
    IF ~NumLess(maxGrade, Num(20)) THEN 3
    ELSE IF ~NumLess(maxGrade, Num(15)) THEN 2
    ELSE IF ~NumLess(maxGrade, Num(10)) THEN 1
    ELSE 0

GradeScore(maxGrade) ==
    IF NumGreater(maxGrade, Num(20)) THEN 3
    ELSE IF NumGreater(maxGrade, Num(15)) THEN 2
    ELSE IF NumGreater(maxGrade, Num(10)) THEN 1
    ELSE 0

DifficultyOfScore(score) ==
    IF score >= 7 THEN "extreme"
    ELSE IF score >= 5 THEN "hard"
    ELSE IF score >= 3 THEN "moderate"
    ELSE "easy"

calculateDifficulty(st) ==
    LET distance == NumDiv(Num(st.totalDistance), Num(1000))
        elevationGain == st.totalElevationGain
        maxGrade == NumAbs(st.maxGrade)
    IN  DifficultyOfScore(DistanceScore(distance)
                          + ElevationGainScore(elevationGain)
                          + GradeScore(maxGrade))

(***************************************************************************)
(* Comfort amenities: findNearbyPlaces and getTravelComfortInfo.           *)
(***************************************************************************)
\* the five lookups of getTravelComfortInfo, by the field each one fills
ComfortCategories ==
    {"restStops", "fuelStations", "restaurants", "hotels", "medicalFacilities"}

\* the count each category is cut to
ComfortLimit(category) ==
    CASE category = "restStops" -> 3
      [] category = "fuelStations" -> 5
      [] category = "restaurants" -> 8
      [] category = "hotels" -> 4
      [] category = "medicalFacilities" -> 2

\* array.slice(0, count)
SliceFromStart(array, count) ==
    SubSeq(array, 1, IF count < Len(array) THEN count ELSE Len(array))

\* a lookup: "pending", "resolved" with its places, or "rejected"
Lookup(state, places) == [state |-> state, places |-> places]

\* Promise.all over the lookups: it rejects as soon as one lookup is rejected
\* and is fulfilled once every lookup is resolved
PromiseAllState(lookups) ==
    IF \E c \in DOMAIN lookups : lookups[c].state = "rejected" THEN "rejected"
    ELSE IF \A c \in DOMAIN lookups : lookups[c].state = "resolved" THEN "fulfilled"
    ELSE "pending"

\* the object getTravelComfortInfo builds once Promise.all is fulfilled
ComfortInfoOf(lookups) ==
    [c \in ComfortCategories |-> SliceFromStart(lookups[c].places, ComfortLimit(c))]

\* what getTravelComfortInfo does with the lookups as they stand: return the
\* info, return null from the catch block, or keep awaiting
ComfortOutcome(lookups) ==
    CASE PromiseAllState(lookups) = "fulfilled" ->
             [returns |-> TRUE, value |-> ComfortInfoOf(lookups)]
      [] PromiseAllState(lookups) = "rejected" ->
             [returns |-> TRUE, value |-> null]
      [] OTHER -> [returns |-> FALSE, value |-> null]

(***************************************************************************)
(* The fetching panels: the effect of RouteAlternatives, SafetyAlerts and  *)
(* NearbyPlaces that starts a request when its inputs change, and the      *)
(* continuation that runs when the request completes.                      *)
(***************************************************************************)
Panels ==
    {"RouteAlternatives", "SafetyAlerts", "NearbyPlaces", "PhotoSpots",
     "TravelComfortPanel"}

\* getTrafficInfo awaits nothing outside JavaScript, so a SafetyAlerts
\* request completes before the next input change is handled; the other
\* panels wait for a provider and their requests overlap
RequestsOverlap(panel) == panel # "SafetyAlerts"

\* getRouteAlternatives, findNearbyPlaces, getPhotoSpots and
\* getTravelComfortInfo can fail and then leave the panel empty;
\* getTrafficInfo cannot
CanFail(panel) == panel # "SafetyAlerts"

Request(id, input) == [id |-> id, input |-> input]

\* what the panel stores for a completed request: the provider's answer for
\* the request's inputs, or the empty list after a failure
ResultOf(request, ok) == IF ok THEN <<request.input>> ELSE <<>>

(***************************************************************************)
(* Alert derivers: getSafetyScore of the SafetyAlerts panel.               *)
(***************************************************************************)
\* the grade penalty with the tiers tested from the lowest up
GradePenaltyLowestFirst(maxGrade) ==
    IF NumGreater(maxGrade, Num(10)) THEN 10
    ELSE IF NumGreater(maxGrade, Num(15)) THEN 15
    ELSE IF NumGreater(maxGrade, Num(20)) THEN 20
    ELSE 0

GradePenalty(maxGrade) ==
    IF NumGreater(maxGrade, Num(20)) THEN 20
    ELSE IF NumGreater(maxGrade, Num(15)) THEN 15
    ELSE IF NumGreater(maxGrade, Num(10)) THEN 10
    ELSE 0

GainPenalty(elevationGain) ==
    IF elevationGain > 1000 THEN 15
    ELSE IF elevationGain > 500 THEN 10
    ELSE 0

DistancePenalty(totalDistance) ==
    IF totalDistance > 20000 THEN 10
    ELSE IF totalDistance > 10000 THEN 5
    ELSE 0

getSafetyScore(st) ==
    LET score == 100 - GradePenalty(st.maxGrade)
                     - GainPenalty(st.totalElevationGain)
                     - DistancePenalty(st.totalDistance)
    IN  IF score > 0 THEN score ELSE 0

(***************************************************************************)
(* Alert derivers: getTrafficInfo.                                         *)
(***************************************************************************)
\* the filter callback comparing the signed grade
IsSteepSectionSigned(routePoints, index) ==
    IF index = 0 THEN FALSE
    ELSE LET point == routePoints[index + 1]
             prevPoint == routePoints[index]
             elevationChange == point.elevation - prevPoint.elevation
             distance == point.distance - prevPoint.distance
             grade == NumMul(NumDiv(Num(elevationChange), Num(distance)), Num(100))
         IN  NumGreater(grade, Num(15))

\* the filter callback for the point at index (0-based); the division is
\* not guarded, so distance = 0 yields Infinity or NaN
IsSteepSection(routePoints, index) ==
    IF index = 0 THEN FALSE
    ELSE LET point == routePoints[index + 1]
             prevPoint == routePoints[index]
             elevationChange == point.elevation - prevPoint.elevation
             distance == point.distance - prevPoint.distance
             grade == NumAbs(NumMul(NumDiv(Num(elevationChange), Num(distance)),
                                    Num(100)))
         IN  NumGreater(grade, Num(15))

\* the indices (0-based) of the points the filter keeps
steepSections(routePoints) ==
    {index \in 0..(Len(routePoints) - 1) : IsSteepSection(routePoints, index)}

getTrafficInfo(routePoints) ==
    (IF Len(routePoints) > 50
     THEN <<"Heavy traffic expected during peak hours">> ELSE <<>>)
    \o (IF Cardinality(steepSections(routePoints)) > 5
        THEN <<"Multiple steep sections - allow extra time">> ELSE <<>>)

(***************************************************************************)
(* Hiking: getHikingTrailInfo, calculateHikingDifficulty and               *)
(* analyzeHikingTerrain.                                                   *)
(***************************************************************************)
\* a level reached only when all three quantities exceed their cutoffs
ExceedsEveryCutoff(distance, elevationGain, maxGrade, km, metres, percent) ==
    /\ NumGreater(distance, Num(km))
    /\ elevationGain > metres
    /\ NumGreater(maxGrade, Num(percent))

\* distance > km || elevationGain > metres || maxGrade > percent
ExceedsCutoff(distance, elevationGain, maxGrade, km, metres, percent) ==
    \/ NumGreater(distance, Num(km))
    \/ elevationGain > metres
    \/ NumGreater(maxGrade, Num(percent))

calculateHikingDifficulty(routePoints) ==
    LET st == calculateRouteStats(routePoints)
        distance == NumDiv(Num(st.totalDistance), Num(1000))
        elevationGain == st.totalElevationGain
        maxGrade == NumAbs(st.maxGrade)
    IN  IF ExceedsCutoff(distance, elevationGain, maxGrade, 15, 800, 25)
        THEN "expert"
        ELSE IF ExceedsCutoff(distance, elevationGain, maxGrade, 10, 500, 20)
        THEN "advanced"
        ELSE IF ExceedsCutoff(distance, elevationGain, maxGrade, 5, 300, 15)
        THEN "intermediate"
        ELSE "beginner"

\* the default tag appended to whatever tags there are
TerrainAndDefault(terrain) == Append(terrain, "Moderate terrain")

\* terrain.length > 0 ? terrain : ['Moderate terrain']
TerrainOrDefault(terrain) ==
    IF Len(terrain) > 0 THEN terrain ELSE <<"Moderate terrain">>

analyzeHikingTerrain(routePoints) ==
    LET st == calculateRouteStats(routePoints)
    IN  TerrainOrDefault(
            (IF st.maxElevation > 2000 THEN <<"High altitude">> ELSE <<>>)
            \o (IF NumGreater(st.maxGrade, Num(20)) THEN <<"Steep climbs">> ELSE <<>>)
            \o (IF st.totalDistance > 10000 THEN <<"Long distance">> ELSE <<>>)
            \o (IF st.totalElevationGain > 500
                THEN <<"Significant elevation gain">> ELSE <<>>))

\* the object getHikingTrailInfo returns; the places of trailheads and
\* waterSources enter neither derived field and are left out
HikingTrailInfo(routePoints) ==
    [difficulty |-> calculateHikingDifficulty(routePoints),
     terrainAnalysis |-> analyzeHikingTerrain(routePoints)]

(***************************************************************************)
(* Route lists: getRouteAlternatives and getAccessibleRoutes.              *)
(***************************************************************************)
\* the number of routes the loop processes: Math.min(routes.length, 3) in
\* getRouteAlternatives, every route in getAccessibleRoutes
RoutesProcessed(kind, routes) ==
    IF kind = "getRouteAlternatives" /\ Len(routes) > 3 THEN 3 ELSE Len(routes)

\* every elevation request of the loop issued before the first await
RequestsIssuedAtOnce(kind, routes, index) ==
    IF index = 0 THEN 0..(RoutesProcessed(kind, routes) - 1) ELSE {}

\* the elevation requests issued when the loop reaches index: the await in
\* the loop body holds the next iteration back until the response arrived
RequestsIssuedAt(kind, routes, index) ==
    IF index < RoutesProcessed(kind, routes) THEN {index} ELSE {}

(***************************************************************************)
(* VoiceGuidance: the instruction list and its cursor.                     *)
(***************************************************************************)
\* an instruction string; "" is the initial currentInstruction
Instruction(text) == [text |-> text]

\* newInstructions of generateInstructions: five sentences, the steepness
\* warning spliced in at position 2 when maxGrade > 15, then the altitude
\* notice spliced in at position 2 when maxElevation > 1500
generateInstructions(routeStats) ==
    LET base ==
            << Instruction("distance"), Instruction("elevation gain"),
               Instruction("travel time"), Instruction("stay on route"),
               Instruction("enjoy") >>
        splice2(list, item) == SubSeq(list, 1, 2) \o <<item>> \o SubSeq(list, 3, Len(list))
        withGrade ==
            IF NumGreater(routeStats.maxGrade, Num(15))
            THEN splice2(base, Instruction("steep sections")) ELSE base
    IN  IF routeStats.maxElevation > 1500
        THEN splice2(withGrade, Instruction("high altitude")) ELSE withGrade

\* list[index] of JavaScript: undefined outside 0 .. length - 1
InstructionAt(list, index) ==
    IF index >= 0 /\ index < Len(list) THEN list[index + 1] ELSE undefined

\* Math.min(instructionIndex + 1, instructions.length - 1)
NextIndex(index, list) ==
    IF index + 1 < Len(list) - 1 THEN index + 1 ELSE Len(list) - 1

\* Math.max(instructionIndex - 1, 0)
PrevIndex(index) == IF index - 1 > 0 THEN index - 1 ELSE 0

(***************************************************************************)
(* Places lookups: findNearbyPlaces and the operations built on it         *)
(* (getPhotoSpots, getHikingTrailInfo, getTravelComfortInfo,               *)
(* getEmergencyInfo).                                                      *)
(***************************************************************************)
Error(message) == [error |-> message]

\* a PlaceResult: rating is a number or undefined, photos is an array (kept
\* by its length) or undefined
Place(id, rating, photos) == [id |-> id, rating |-> rating, photos |-> photos]

Photos(count) == [length |-> count]

\* the request object findNearbyPlaces hands to nearbySearch
PlacesRequest(location, type, radius) ==
    [location |-> location, type |-> type, radius |-> radius]

\* routePoints[index] of JavaScript: undefined outside 0 .. length - 1
PointAt(routePoints, index) ==
    IF index >= 0 /\ index < Len(routePoints) THEN routePoints[index + 1]
    ELSE undefined

\* the midpoint index rounded to the nearest integer instead of down
MidPointIndexRounded(length) == (length + 1) \div 2

\* Math.floor(routePoints.length / 2)
MidPointIndex(length) == length \div 2

\* routePoints.filter((_, index) => index % 10 === 0)
SamplePoints(routePoints) ==
    [k \in 1..((Len(routePoints) + 9) \div 10) |-> routePoints[10 * (k - 1) + 1]]

\* a filter that asks for the rating alone
IsGoodSpotByRating(place) ==
    /\ place.rating # undefined
    /\ ~IsNaN(place.rating)
    /\ ~NumLess(place.rating, Num(4))

\* place.rating && place.rating >= 4.0 && place.photos && place.photos.length > 0
IsGoodSpot(place) ==
    /\ place.rating # undefined
    /\ ~IsNaN(place.rating)
    /\ place.rating # Zero
    /\ ~NumLess(place.rating, Num(4))
    /\ place.photos # undefined
    /\ place.photos.length > 0

\* places.filter(...)
GoodSpots(places) == SelectSeq(places, IsGoodSpot)

\* the lookups an operation makes once setMap has run, in the order of the
\* calls; midPoint is the point the three midpoint operations look around
PlacesPlan(op, routePoints, midPoint) ==
    LET at(point, type, radius) ==
            PlacesRequest(LatLng(point.lat, point.lng), type, radius)
    IN  CASE op = "findNearbyPlaces" ->
                 << PlacesRequest(LatLng(0, 0), "cafe", 1000) >>
          [] op = "getPhotoSpots" ->
                 LET searched == SliceFromStart(SamplePoints(routePoints), 5)
                 IN  [k \in 1..Len(searched) |->
                         at(searched[k], "tourist_attraction", 1500)]
          [] op = "getHikingTrailInfo" ->
                 << at(midPoint, "park", 5000),
                    at(midPoint, "natural_feature", 2000) >>
          [] op = "getEmergencyInfo" ->
                 << at(midPoint, "hospital", 50000),
                    at(midPoint, "police", 25000) >>
          [] op = "getTravelComfortInfo" ->
                 << at(midPoint, "rest_stop", 10000),
                    at(midPoint, "gas_station", 15000),
                    at(midPoint, "restaurant", 5000),
                    at(midPoint, "lodging", 20000),
                    at(midPoint, "hospital", 25000) >>

\* the number of lookups an operation starts before it awaits: all five in
\* the Promise.all of getTravelComfortInfo, one everywhere else
LookupsStartedAtOnce(op) == IF op = "getTravelComfortInfo" THEN 5 ELSE 1

\* the value an operation returns once its lookups resolved
PlacesValue(op, routePoints, lookups, spots) ==
    CASE op = "findNearbyPlaces" -> lookups[1].places
      [] op = "getPhotoSpots" -> SliceFromStart(spots, 8)
      [] op = "getHikingTrailInfo" ->
             [trailheads |-> SliceFromStart(lookups[1].places, 3),
              waterSources |-> SliceFromStart(lookups[2].places, 5)]
               @@ HikingTrailInfo(routePoints)
      [] op = "getEmergencyInfo" ->
             [nearestHospital |->
                  IF Len(lookups[1].places) > 0 THEN lookups[1].places[1] ELSE null,
              policeStations |-> SliceFromStart(lookups[2].places, 2),
              emergencyContacts |-> <<"911", "Local Emergency Services">>]
      [] op = "getTravelComfortInfo" ->
             [restStops |-> SliceFromStart(lookups[1].places, 3),
              fuelStations |-> SliceFromStart(lookups[2].places, 5),
              restaurants |-> SliceFromStart(lookups[3].places, 8),
              hotels |-> SliceFromStart(lookups[4].places, 4),
              medicalFacilities |-> SliceFromStart(lookups[5].places, 2)]

(***************************************************************************)
(* Initial values of the variables a specification does not use.           *)
(***************************************************************************)
SamplerIdle ==
    /\ path = <<>>
    /\ sampleCount = 0
    /\ samples = <<>>
    /\ samplerPc = "idle"

StatsIdle ==
    /\ points = <<>>
    /\ stats = EmptyRouteStats
    /\ statsPc = "idle"

RouteIdle ==
    /\ routePc = "idle"
    /\ overviewPath = <<>>
    /\ pathPoints = <<>>
    /\ elevationData = <<>>
    /\ routeData = null
    /\ routeError = ""
    /\ routeTrace = <<>>

DifficultyIdle ==
    /\ difficultyStats = <<>>
    /\ difficulty = <<>>

ComfortIdle ==
    /\ placesService = FALSE
    /\ comfortRoute = <<>>
    /\ comfortPc = "idle"
    /\ comfortLookups = [c \in ComfortCategories |-> Lookup("pending", <<>>)]
    /\ comfortInfo = null

PanelIdle ==
    /\ panelKind = "none"
    /\ panelInput = "none"
    /\ panelShown = <<>>
    /\ panelShownFrom = 0
    /\ panelLoading = FALSE
    /\ panelInFlight = {}
    /\ panelLatest = 0

SafetyIdle ==
    /\ safetyStats = EmptyRouteStats
    /\ safetyScore = 0
    /\ safetyPc = "idle"

AnalysisIdle ==
    /\ analysisRoute = <<>>
    /\ analysisPc = "idle"
    /\ trafficAlerts = <<>>
    /\ hikingInfo = null
    /\ routeDifficulty = ""

AltIdle ==
    /\ altKind = "none"
    /\ altPc = "idle"
    /\ altRoutes = <<>>
    /\ altIndex = 0
    /\ altPathPoints = <<>>
    /\ altAlternatives = <<>>
    /\ altResult = <<>>
    /\ altFailure = "none"
    /\ altInFlight = {}
    /\ altRequests = 0

VoiceIdle ==
    /\ voiceRouteData = null
    /\ instructions = <<>>
    /\ instructionIndex = 0
    /\ currentInstruction = Instruction("")

PlacesIdle ==
    /\ placesOp = "none"
    /\ placesRoute = <<>>
    /\ placesReady = FALSE
    /\ placesPc = "idle"
    /\ placesRequests = <<>>
    /\ placesLookups = <<>>
    /\ photoSpots = <<>>
    /\ placesResult = null

(***************************************************************************)
(* SamplerSpec: sampleRoutePoints applied to every path and sample count   *)
(* within the bounds.                                                      *)
(***************************************************************************)
SamplerInit ==
    /\ path \in SeqsUpTo(LatLngs, MaxPathLen)
    /\ sampleCount \in 0..MaxSampleCount
    /\ samples = <<>>
    /\ samplerPc = "ready"
    /\ StatsIdle
    /\ RouteIdle
    /\ DifficultyIdle
    /\ ComfortIdle
    /\ PanelIdle
    /\ SafetyIdle
    /\ AnalysisIdle
    /\ AltIdle
    /\ VoiceIdle
    /\ PlacesIdle

SampleRoutePoints ==
    /\ samplerPc = "ready"
    /\ samples' = sampleRoutePoints(path, sampleCount)
    /\ samplerPc' = "returned"
    /\ UNCHANGED <<path, sampleCount, exceptSampler>>

SamplerNext == SampleRoutePoints

SamplerSpec == SamplerInit /\ [][SamplerNext]_vars

(***************************************************************************)
(* StatsSpec: calculateRouteStats applied to every point sequence within   *)
(* the bounds; distances are arbitrary, so stationary and backtracking     *)
(* segments occur.                                                         *)
(***************************************************************************)
ElevationValues == {100, 150, 400}

DistanceValues == {0, 1000, 2000}

RoutePoints ==
    {RoutePoint(0, 0, e, dist) : e \in ElevationValues, dist \in DistanceValues}

StatsInit ==
    /\ points \in SeqsUpTo(RoutePoints, MaxPoints)
    /\ stats = EmptyRouteStats
    /\ statsPc = "ready"
    /\ SamplerIdle
    /\ RouteIdle
    /\ DifficultyIdle
    /\ ComfortIdle
    /\ PanelIdle
    /\ SafetyIdle
    /\ AnalysisIdle
    /\ AltIdle
    /\ VoiceIdle
    /\ PlacesIdle

CalculateRouteStats ==
    /\ statsPc = "ready"
    /\ LET result == calculateRouteStats(points)
       IN  IF result = TypeError
           THEN statsPc' = "threw" /\ stats' = stats
           ELSE statsPc' = "returned" /\ stats' = result
    /\ UNCHANGED <<points, exceptStats>>

StatsNext == CalculateRouteStats

StatsSpec == StatsInit /\ [][StatsNext]_vars

(***************************************************************************)
(* RouteSpec: one calculateRoute call.  The directions and the elevation   *)
(* provider answer with any status; an elevation answer may hold fewer or  *)
(* more results than the locations sent, or no result array at all.        *)
(***************************************************************************)
Statuses == {"OK", "UNKNOWN_ERROR"}

RouteElevations == {100, 150}

\* the answers the elevation provider can give for the locations sent:
\* result k echoes location k; a result beyond the locations sent carries
\* any location
ElevationResults(locations) ==
    {data \in SeqsUpTo({ElevationResult(loc, e) : loc \in LatLngs, e \in RouteElevations},
                       Len(locations) + 1) :
        \A k \in 1..Len(data) : k <= Len(locations) => data[k].location = locations[k]}

ElevationAnswers(locations) ==
    {ElevationAnswer(status, TRUE, data) :
        status \in Statuses, data \in ElevationResults(locations)}
    \cup {ElevationAnswer(status, FALSE, <<>>) : status \in Statuses}

RouteInit ==
    /\ RouteIdle
    /\ SamplerIdle
    /\ StatsIdle
    /\ DifficultyIdle
    /\ ComfortIdle
    /\ PanelIdle
    /\ SafetyIdle
    /\ AnalysisIdle
    /\ AltIdle
    /\ VoiceIdle
    /\ PlacesIdle

\* calculateRoute is called: getDirections issues the directions request
CalculateRoute ==
    /\ routePc = "idle"
    /\ routePc' = "awaitDirections"
    /\ routeTrace' = Append(routeTrace, "directions request")
    /\ UNCHANGED <<overviewPath, pathPoints, elevationData, routeData, routeError,
                   exceptRoute>>

\* the directions callback with status OK; routes[0] has at least one
\* coordinate: the route is sampled and the elevation request is issued
DirectionsOk ==
    /\ routePc = "awaitDirections"
    /\ \E p \in SeqsUpTo(LatLngs, MaxPathLen) :
          /\ Len(p) >= 1
          /\ overviewPath' = p
          /\ pathPoints' = sampleRoutePoints(p, ELEVATION_SAMPLE_POINTS)
    /\ routePc' = "awaitElevation"
    /\ routeTrace' = routeTrace \o <<"directions OK", "elevation request">>
    /\ UNCHANGED <<elevationData, routeData, routeError, exceptRoute>>

\* a failed directions request after which the elevation request is issued
\* all the same, for an empty path
DirectionsFailedThenElevation ==
    /\ routePc = "awaitDirections"
    /\ overviewPath' = <<>>
    /\ pathPoints' = <<>>
    /\ routePc' = "awaitElevation"
    /\ routeTrace' = routeTrace \o <<"directions failed", "elevation request">>
    /\ UNCHANGED <<elevationData, routeData, routeError, exceptRoute>>

\* the directions callback with another status: the promise rejects and
\* calculateRoute's catch rethrows
DirectionsFailed ==
    /\ routePc = "awaitDirections"
    /\ routePc' = "rejected"
    /\ routeError' = "Failed to calculate route. Please try again."
    /\ routeTrace' = Append(routeTrace, "directions failed")
    /\ UNCHANGED <<overviewPath, pathPoints, elevationData, routeData, exceptRoute>>

\* the elevation callback resolves: the points and the statistics are made
ElevationOk ==
    /\ routePc = "awaitElevation"
    /\ \E answer \in ElevationAnswers(pathPoints) :
          /\ ElevationResolves(answer)
          /\ elevationData' = answer.results
          /\ routeTrace' = routeTrace \o <<"elevation OK", "statistics">>
          /\ LET routePoints == createRoutePoints(answer.results, overviewPath)
                 st == calculateRouteStats(routePoints)
             IN  IF st = TypeError
                 THEN /\ routePc' = "rejected"
                      /\ routeError' = "Failed to calculate route. Please try again."
                      /\ routeData' = routeData
                 ELSE /\ routePc' = "resolved"
                      /\ routeData' = RouteData(routePoints, st)
                      /\ routeError' = routeError
    /\ UNCHANGED <<overviewPath, pathPoints, exceptRoute>>

\* the elevation callback rejects: calculateRoute's catch rethrows
ElevationFailed ==
    /\ routePc = "awaitElevation"
    /\ \E answer \in ElevationAnswers(pathPoints) : ~ElevationResolves(answer)
    /\ routePc' = "rejected"
    /\ routeError' = "Failed to calculate route. Please try again."
    /\ routeTrace' = Append(routeTrace, "elevation failed")
    /\ UNCHANGED <<overviewPath, pathPoints, elevationData, routeData, exceptRoute>>

RouteNext ==
    \/ CalculateRoute
    \/ DirectionsOk
    \/ DirectionsFailed
    \/ ElevationOk
    \/ ElevationFailed

RouteSpec == RouteInit /\ [][RouteNext]_vars

(***************************************************************************)
(* DifficultySpec: calculateDifficulty called on a RouteStats value and    *)
(* then on the value with exactly one of totalDistance,                    *)
(* totalElevationGain and maxGrade raised.  The values lie on and around   *)
(* every threshold; maxGrade is never negative, as in every RouteStats     *)
(* calculateRouteStats returns.                                            *)
(***************************************************************************)
DistanceLevels == {5000, 5001, 10000, 10001, 20000, 20001, 25000}

ElevationGainLevels == {200, 201, 500, 501, 1000, 1001, 1200}

GradeLevels == {10, 11, 15, 16, 20, 21, 22}

StatsOfLevels(td, gain, grade) ==
    RouteStats(td, gain, 0, gain, 0, Num(grade), Zero, Num(grade),
               EstimatedTime(td, gain))

\* st and a value that exceeds st in exactly one of the three quantities
RaisedPairs ==
    {<<StatsOfLevels(td, gain, grade), StatsOfLevels(td2, gain, grade)>> :
        td \in DistanceLevels, td2 \in DistanceLevels,
        gain \in ElevationGainLevels, grade \in GradeLevels}
    \cup
    {<<StatsOfLevels(td, gain, grade), StatsOfLevels(td, gain2, grade)>> :
        td \in DistanceLevels, gain \in ElevationGainLevels,
        gain2 \in ElevationGainLevels, grade \in GradeLevels}
    \cup
    {<<StatsOfLevels(td, gain, grade), StatsOfLevels(td, gain, grade2)>> :
        td \in DistanceLevels, gain \in ElevationGainLevels,
        grade \in GradeLevels, grade2 \in GradeLevels}

Raises(lo, hi) ==
    /\ lo # hi
    /\ lo.totalDistance <= hi.totalDistance
    /\ lo.totalElevationGain <= hi.totalElevationGain
    /\ ~NumLess(hi.maxGrade, lo.maxGrade)

DifficultyInit ==
    /\ difficultyStats \in {pair \in RaisedPairs : Raises(pair[1], pair[2])}
    /\ difficulty = <<>>
    /\ SamplerIdle
    /\ StatsIdle
    /\ RouteIdle
    /\ ComfortIdle
    /\ PanelIdle
    /\ SafetyIdle
    /\ AnalysisIdle
    /\ AltIdle
    /\ VoiceIdle
    /\ PlacesIdle

CalculateDifficulty ==
    /\ Len(difficulty) < Len(difficultyStats)
    /\ difficulty' =
          Append(difficulty, calculateDifficulty(difficultyStats[Len(difficulty) + 1]))
    /\ UNCHANGED <<difficultyStats, exceptDifficulty>>

DifficultyNext == CalculateDifficulty

DifficultySpec == DifficultyInit /\ [][DifficultyNext]_vars

(***************************************************************************)
(* ComfortSpec: one getTravelComfortInfo call, before or after setMap;     *)
(* each of the five lookups is answered, in any order, with a list of      *)
(* places or with a failure.                                               *)
(***************************************************************************)
\* a route of n points, 1000 m apart, as createRoutePoints makes it
StraightRoute(n) ==
    createRoutePoints([k \in 1..n |-> ElevationResult(LatLng(0, k - 1), 100)], <<>>)

\* the list of n places a provider answers a lookup with
PlacesOfCount(n) == [k \in 1..n |-> k]

ComfortInit ==
    /\ placesService = FALSE
    /\ comfortRoute \in {StraightRoute(n) : n \in 0..MaxComfortRoute}
    /\ comfortPc = "idle"
    /\ comfortLookups = [c \in ComfortCategories |-> Lookup("pending", <<>>)]
    /\ comfortInfo = null
    /\ SamplerIdle
    /\ StatsIdle
    /\ RouteIdle
    /\ DifficultyIdle
    /\ PanelIdle
    /\ SafetyIdle
    /\ AnalysisIdle
    /\ AltIdle
    /\ VoiceIdle
    /\ PlacesIdle

SetMap ==
    /\ placesService = FALSE
    /\ placesService' = TRUE
    /\ UNCHANGED <<comfortRoute, comfortPc, comfortLookups, comfortInfo, exceptComfort>>

\* getTravelComfortInfo is called: null for an empty route; otherwise the
\* five lookups are made at the midpoint and Promise.all is awaited.  Without
\* a places service every lookup throws at once and the catch returns null.
GetTravelComfortInfo ==
    /\ comfortPc = "idle"
    /\ IF Len(comfortRoute) = 0
       THEN comfortPc' = "returned" /\ UNCHANGED comfortLookups
       ELSE IF ~placesService
       THEN /\ comfortPc' = "returned"
            /\ comfortLookups' = [c \in ComfortCategories |-> Lookup("rejected", <<>>)]
       ELSE comfortPc' = "awaiting" /\ UNCHANGED comfortLookups
    /\ UNCHANGED <<placesService, comfortRoute, comfortInfo, exceptComfort>>

\* the nearbySearch callback of one lookup has run; the call returns once
\* Promise.all has settled, and answers that arrive after the return are
\* dropped
PlacesAnswered(category, ok, places) ==
    /\ comfortPc \in {"awaiting", "returned"}
    /\ comfortLookups[category].state = "pending"
    /\ LET lookups == [comfortLookups EXCEPT ![category] =
                          IF ok THEN Lookup("resolved", places)
                          ELSE Lookup("rejected", <<>>)]
           outcome == ComfortOutcome(lookups)
       IN  /\ comfortLookups' = lookups
           /\ IF comfortPc = "awaiting" /\ outcome.returns
              THEN comfortPc' = "returned" /\ comfortInfo' = outcome.value
              ELSE UNCHANGED <<comfortPc, comfortInfo>>
    /\ UNCHANGED <<placesService, comfortRoute, exceptComfort>>

\* nearbySearch calls back with status OK and results
PlacesFound ==
    /\ placesService
    /\ Len(comfortRoute) > 0
    /\ \E category \in ComfortCategories, n \in 0..MaxPlaces :
          PlacesAnswered(category, TRUE, PlacesOfCount(n))

\* nearbySearch calls back with another status
PlacesFailed ==
    /\ placesService
    /\ Len(comfortRoute) > 0
    /\ \E category \in ComfortCategories : PlacesAnswered(category, FALSE, <<>>)

ComfortNext ==
    \/ SetMap
    \/ GetTravelComfortInfo
    \/ PlacesFound
    \/ PlacesFailed

ComfortSpec == ComfortInit /\ [][ComfortNext]_vars

(***************************************************************************)
(* PanelSpec: one panel through successive changes of its inputs.          *)
(***************************************************************************)
PanelInputs == {"A", "B"}

PanelInit ==
    /\ panelKind \in Panels
    /\ panelInput = "none"
    /\ panelShown = <<>>
    /\ panelShownFrom = 0
    /\ panelLoading = FALSE
    /\ panelInFlight = {}
    /\ panelLatest = 0
    /\ SamplerIdle
    /\ StatsIdle
    /\ RouteIdle
    /\ DifficultyIdle
    /\ ComfortIdle
    /\ SafetyIdle
    /\ AnalysisIdle
    /\ AltIdle
    /\ VoiceIdle
    /\ PlacesIdle

\* the effect after the inputs changed to usable values: setLoading(true)
\* and the request is issued
InputsChanged ==
    /\ panelLatest < MaxRequests
    /\ RequestsOverlap(panelKind) \/ panelInFlight = {}
    /\ \E input \in PanelInputs :
          /\ input # panelInput
          /\ panelInput' = input
          /\ panelInFlight' = panelInFlight \cup {Request(panelLatest + 1, input)}
    /\ panelLatest' = panelLatest + 1
    /\ panelLoading' = TRUE
    /\ UNCHANGED <<panelKind, panelShown, panelShownFrom, exceptPanel>>

\* the effect after an input became null (or the route has no points): the
\* list is emptied and no request is issued
InputsCleared ==
    /\ panelInput # "none"
    /\ RequestsOverlap(panelKind) \/ panelInFlight = {}
    /\ panelInput' = "none"
    /\ panelShown' = <<>>
    /\ panelShownFrom' = 0
    /\ UNCHANGED <<panelKind, panelLoading, panelInFlight, panelLatest, exceptPanel>>

\* the continuation after the await: the result is stored (the empty list
\* from the catch block after a failure) and finally setLoading(false)
Completed(request, ok) ==
    /\ request \in panelInFlight
    /\ panelInFlight' = panelInFlight \ {request}
    /\ panelShown' = ResultOf(request, ok)
    /\ panelShownFrom' = request.id
    /\ panelLoading' = FALSE
    /\ UNCHANGED <<panelKind, panelInput, panelLatest, exceptPanel>>

RequestSucceeded == \E request \in panelInFlight : Completed(request, TRUE)

RequestFailed ==
    /\ CanFail(panelKind)
    /\ \E request \in panelInFlight : Completed(request, FALSE)

PanelNext ==
    \/ InputsChanged
    \/ InputsCleared
    \/ RequestSucceeded
    \/ RequestFailed

PanelSpec == PanelInit /\ [][PanelNext]_vars

(***************************************************************************)
(* SafetySpec: the SafetyAlerts panel rendered for a route whose           *)
(* statistics lie on and around every threshold of getSafetyScore.         *)
(***************************************************************************)
SafetyInit ==
    /\ safetyStats \in {StatsOfLevels(td, gain, grade) :
                           td \in DistanceLevels, gain \in ElevationGainLevels,
                           grade \in GradeLevels}
    /\ safetyScore = 0
    /\ safetyPc = "ready"
    /\ SamplerIdle
    /\ StatsIdle
    /\ RouteIdle
    /\ DifficultyIdle
    /\ ComfortIdle
    /\ PanelIdle
    /\ AnalysisIdle
    /\ AltIdle
    /\ VoiceIdle
    /\ PlacesIdle

\* the render of the panel with routeData set
RenderSafetyScore ==
    /\ safetyPc = "ready"
    /\ safetyScore' = getSafetyScore(safetyStats)
    /\ safetyPc' = "rendered"
    /\ UNCHANGED <<safetyStats, exceptSafety>>

SafetyNext == RenderSafetyScore

SafetySpec == SafetyInit /\ [][SafetyNext]_vars

(***************************************************************************)
(* AnalysisSpec: getTrafficInfo, getHikingTrailInfo and the difficulty     *)
(* shown for a route, each applied to every point sequence within the      *)
(* bounds (elevations and distances on both sides of the cutoffs, any      *)
(* order of distances); getTrafficInfo is also applied to long routes that *)
(* start with a number of steep segments, which exist for its two counts.  *)
(***************************************************************************)
MaxAnalysisPoints == 2

AnalysisElevations == {0, 150, 210, 460, 800, 2001}

AnalysisDistances == {0, 1000, 5000, 5001, 10000, 10001, 15001}

AnalysisPoints ==
    {RoutePoint(0, 0, e, dist) : e \in AnalysisElevations, dist \in AnalysisDistances}

\* n points 1000 m apart whose first k segments climb and descend 160 m in
\* turn (a grade of 16 and of -16) and whose other segments are level
SteepRoute(n, k) ==
    [i \in 1..n |->
        RoutePoint(0, 0,
                   IF (IF i - 1 <= k THEN i - 1 ELSE k) % 2 = 1 THEN 160 ELSE 0,
                   1000 * (i - 1))]

TrafficLengths == {7, 8, 50, 51, 52}

SteepCounts == {0, 1, 5, 6, 7}

\* n points at the same distance whose elevations are 0 and 160 m in turn
StationaryRoute(n) ==
    [i \in 1..n |-> RoutePoint(0, 0, IF (i - 1) % 2 = 1 THEN 160 ELSE 0, 0)]

LongRoutes ==
    {SteepRoute(n, k) : n \in TrafficLengths, k \in {c \in SteepCounts : c < 7}}
    \cup {SteepRoute(n, k) : n \in TrafficLengths \ {7}, k \in SteepCounts}
    \cup {StationaryRoute(n) : n \in TrafficLengths}

ShortRoutes == SeqsUpTo(AnalysisPoints, MaxAnalysisPoints)

AnalysisInit ==
    /\ analysisRoute \in ShortRoutes \cup LongRoutes
    /\ analysisPc = "ready"
    /\ trafficAlerts = <<>>
    /\ hikingInfo = null
    /\ routeDifficulty = ""
    /\ SamplerIdle
    /\ StatsIdle
    /\ RouteIdle
    /\ DifficultyIdle
    /\ ComfortIdle
    /\ PanelIdle
    /\ SafetyIdle
    /\ AltIdle
    /\ VoiceIdle
    /\ PlacesIdle

GetTrafficInfo ==
    /\ analysisPc = "ready"
    /\ trafficAlerts' = getTrafficInfo(analysisRoute)
    /\ analysisPc' = "traffic"
    /\ UNCHANGED <<analysisRoute, hikingInfo, routeDifficulty, exceptAnalysis>>

\* getHikingTrailInfo with a places service whose two lookups succeed
GetHikingTrailInfo ==
    /\ analysisPc = "ready"
    /\ analysisRoute \in ShortRoutes
    /\ Len(analysisRoute) > 0
    /\ placesService
    /\ hikingInfo' = HikingTrailInfo(analysisRoute)
    /\ analysisPc' = "hiking"
    /\ UNCHANGED <<analysisRoute, trafficAlerts, routeDifficulty, exceptAnalysis>>

\* getHikingTrailInfo on an empty route, without a places service, or with
\* a lookup that fails: null
HikingTrailInfoFailed ==
    /\ analysisPc = "ready"
    /\ hikingInfo' = null
    /\ analysisPc' = "hikingFailed"
    /\ UNCHANGED <<analysisRoute, trafficAlerts, routeDifficulty, exceptAnalysis>>

\* the difficulty of a route whose stats were computed from its points
CalculateRouteDifficulty ==
    /\ analysisPc = "ready"
    /\ analysisRoute \in ShortRoutes
    /\ routeDifficulty' = calculateDifficulty(calculateRouteStats(analysisRoute))
    /\ analysisPc' = "rated"
    /\ UNCHANGED <<analysisRoute, trafficAlerts, hikingInfo, exceptAnalysis>>

AnalysisNext ==
    \/ SetMap
    \/ GetTrafficInfo
    \/ GetHikingTrailInfo
    \/ HikingTrailInfoFailed
    \/ CalculateRouteDifficulty

AnalysisSpec == AnalysisInit /\ [][AnalysisNext]_vars

(***************************************************************************)
(* RouteListSpec: one call of getRouteAlternatives or getAccessibleRoutes. *)
(* The directions provider answers with 1..MaxRoutes routes or fails; the  *)
(* elevation provider answers each request with one result per location    *)
(* or fails.                                                               *)
(***************************************************************************)
MaxRoutes == 4

\* the longest route a midpoint operation of PlacesSpec is called with
MaxMidPointRoute == 5

OverviewPaths == {<<LatLng(0, 0)>>, <<LatLng(0, 0), LatLng(0, 1)>>}

\* the results of a successful elevation request: one per location sent
ElevationsFor(locations) ==
    {[k \in 1..Len(locations) |-> ElevationResult(locations[k], elevations[k])] :
        elevations \in [1..Len(locations) -> RouteElevations]}

RouteListInit ==
    /\ AltIdle
    /\ SamplerIdle
    /\ StatsIdle
    /\ RouteIdle
    /\ DifficultyIdle
    /\ ComfortIdle
    /\ PanelIdle
    /\ SafetyIdle
    /\ AnalysisIdle
    /\ VoiceIdle
    /\ PlacesIdle

\* getRouteAlternatives is called: getDirectionsWithAlternatives issues the
\* directions request
GetRouteAlternatives ==
    /\ altPc = "idle"
    /\ altKind' = "getRouteAlternatives"
    /\ altPc' = "awaitDirections"
    /\ UNCHANGED <<altRoutes, altIndex, altPathPoints, altAlternatives, altResult,
                   altFailure, altInFlight, altRequests, exceptAlt>>

\* getAccessibleRoutes is called: getDirectionsWithAccessibility issues the
\* directions request
GetAccessibleRoutes ==
    /\ altPc = "idle"
    /\ altKind' = "getAccessibleRoutes"
    /\ altPc' = "awaitDirections"
    /\ UNCHANGED <<altRoutes, altIndex, altPathPoints, altAlternatives, altResult,
                   altFailure, altInFlight, altRequests, exceptAlt>>

\* the directions callback with status OK: the loop starts, the first route
\* is sampled and its elevation request is issued
RouteListDirectionsOk ==
    /\ altPc = "awaitDirections"
    /\ \E routes \in SeqsUpTo(OverviewPaths, MaxRoutes) :
          /\ Len(routes) >= 1
          /\ altRoutes' = routes
          /\ altPathPoints' = sampleRoutePoints(routes[1], ELEVATION_SAMPLE_POINTS)
          /\ altInFlight' = RequestsIssuedAt(altKind, routes, 0)
          /\ altRequests' = Cardinality(RequestsIssuedAt(altKind, routes, 0))
    /\ altIndex' = 0
    /\ altPc' = "awaitElevation"
    /\ UNCHANGED <<altKind, altAlternatives, altResult, altFailure, exceptAlt>>

\* the directions callback with another status: the promise rejects, the
\* catch logs the error and returns []
RouteListDirectionsFailed ==
    /\ altPc = "awaitDirections"
    /\ altFailure' = "directions"
    /\ altResult' = <<>>
    /\ altPc' = "fulfilled"
    /\ UNCHANGED <<altKind, altRoutes, altIndex, altPathPoints, altAlternatives,
                   altInFlight, altRequests, exceptAlt>>

\* the elevation callback resolves: the route's points and statistics are
\* pushed; then the next route's request is issued, or the list is returned
RouteListElevationOk ==
    /\ altPc = "awaitElevation"
    /\ \E data \in ElevationsFor(altPathPoints) :
          LET routePoints == createRoutePoints(data, altRoutes[altIndex + 1])
              pushed == Append(altAlternatives,
                               RouteData(routePoints, calculateRouteStats(routePoints)))
              issued == RequestsIssuedAt(altKind, altRoutes, altIndex + 1)
          IN  /\ altAlternatives' = pushed
              /\ altInFlight' = (altInFlight \ {altIndex}) \cup issued
              /\ altRequests' = altRequests + Cardinality(issued)
              /\ IF altIndex + 1 < RoutesProcessed(altKind, altRoutes)
                 THEN /\ altIndex' = altIndex + 1
                      /\ altPathPoints' = sampleRoutePoints(altRoutes[altIndex + 2],
                                                            ELEVATION_SAMPLE_POINTS)
                      /\ altPc' = "awaitElevation"
                      /\ altResult' = altResult
                 ELSE /\ altIndex' = altIndex + 1
                      /\ altPathPoints' = altPathPoints
                      /\ altPc' = "fulfilled"
                      /\ altResult' = pushed
    /\ UNCHANGED <<altKind, altRoutes, altFailure, exceptAlt>>

\* the elevation callback rejects: the catch logs the error and returns []
RouteListElevationFailed ==
    /\ altPc = "awaitElevation"
    /\ altFailure' = "elevation"
    /\ altResult' = <<>>
    /\ altPc' = "fulfilled"
    /\ altInFlight' = altInFlight \ {altIndex}
    /\ UNCHANGED <<altKind, altRoutes, altIndex, altPathPoints, altAlternatives,
                   altRequests, exceptAlt>>

RouteListNext ==
    \/ GetRouteAlternatives
    \/ GetAccessibleRoutes
    \/ RouteListDirectionsOk
    \/ RouteListDirectionsFailed
    \/ RouteListElevationOk
    \/ RouteListElevationFailed

RouteListSpec == RouteListInit /\ [][RouteListNext]_vars

(***************************************************************************)
(* VoiceSpec: the VoiceGuidance component through changes of its routeData *)
(* prop and uses of the Next and Previous controls (buttons or the voice   *)
(* commands "next", "forward", "previous", "back").                        *)
(***************************************************************************)
\* the statistics the instructions depend on, either side of each threshold
VoiceStats ==
    { [EmptyRouteStats EXCEPT !.maxGrade = g, !.maxElevation = h] :
        g \in {Num(0), Num(15), Num(16)},
        h \in {1500, 1501} }

\* the routeData values the parent passes: null, or a route with its points
VoiceRoutes ==
    {null} \cup { RouteData(StraightRoute(n), st) : n \in 0..1, st \in VoiceStats }

VoiceInit ==
    /\ VoiceIdle
    /\ PlacesIdle
    /\ SamplerIdle
    /\ StatsIdle
    /\ RouteIdle
    /\ DifficultyIdle
    /\ ComfortIdle
    /\ PanelIdle
    /\ SafetyIdle
    /\ AnalysisIdle
    /\ AltIdle

\* the routeData prop changes and the effect runs: generateInstructions when
\* the route has points; instructionIndex is not among the states it sets
RouteDataChanged ==
    \E data \in VoiceRoutes :
        /\ data # voiceRouteData
        /\ voiceRouteData' = data
        /\ IF data # null /\ Len(data.points) > 0
           THEN LET newInstructions == generateInstructions(data.stats)
                IN  /\ instructions' = newInstructions
                    /\ currentInstruction' =
                          IF Len(newInstructions) > 0 THEN newInstructions[1]
                          ELSE Instruction("")
                    /\ UNCHANGED instructionIndex
           ELSE UNCHANGED <<instructions, instructionIndex, currentInstruction>>
        /\ UNCHANGED exceptVoice

\* nextInstruction; the Next button is disabled only while
\* instructionIndex = instructions.length - 1, the voice command never
NextInstruction ==
    LET nextIndex == NextIndex(instructionIndex, instructions)
    IN  /\ instructionIndex' = nextIndex
        /\ currentInstruction' = InstructionAt(instructions, nextIndex)
        /\ UNCHANGED <<voiceRouteData, instructions, exceptVoice>>

\* previousInstruction
PreviousInstruction ==
    LET prevIndex == PrevIndex(instructionIndex)
    IN  /\ instructionIndex' = prevIndex
        /\ currentInstruction' = InstructionAt(instructions, prevIndex)
        /\ UNCHANGED <<voiceRouteData, instructions, exceptVoice>>

VoiceNext ==
    \/ RouteDataChanged
    \/ NextInstruction
    \/ PreviousInstruction

VoiceSpec == VoiceInit /\ [][VoiceNext]_vars

(***************************************************************************)
(* PlacesSpec: one call of a places operation, before or after setMap;     *)
(* every nearbySearch request it hands to the provider is answered with a  *)
(* list of places or with a failure.                                       *)
(***************************************************************************)
PlacesOperations ==
    {"findNearbyPlaces", "getPhotoSpots", "getHikingTrailInfo",
     "getTravelComfortInfo", "getEmergencyInfo"}

MidPointOperations ==
    {"getHikingTrailInfo", "getTravelComfortInfo", "getEmergencyInfo"}

\* route lengths either side of every tenth index and of the fifth search
PhotoRouteLengths == {0, 1, 10, 11, 20, 21, 31, 40, 41, 50, 51}

\* a route of n points along the equator, 1000 m apart and level
LevelRoute(n) == [k \in 1..n |-> RoutePoint(0, k - 1, 100, 1000 * (k - 1))]

\* the routes an operation is called with
PlacesRoutes(op) ==
    CASE op = "findNearbyPlaces" -> {<<>>}
      [] op = "getPhotoSpots" -> {LevelRoute(n) : n \in PhotoRouteLengths}
      [] OTHER -> {LevelRoute(n) : n \in 0..MaxMidPointRoute}

\* the lists of places a nearbySearch answers with
PlacesAnswers(op) ==
    IF op = "getTravelComfortInfo"
    THEN { <<>>, << Place(1, Num(5), Photos(1)) >> }
    ELSE { <<>>,
           << Place(1, Num(5), Photos(2)), Place(2, Num(4), Photos(1)),
              Place(3, Num(5), Photos(1)) >>,
           << Place(4, NumDiv(Num(39), Num(10)), Photos(1)),
              Place(5, Num(5), Photos(0)),
              Place(6, NumDiv(Num(9), Num(2)), Photos(3)) >>,
           << Place(7, undefined, Photos(1)), Place(8, Num(5), undefined),
              Place(9, Zero, Photos(1)) >> }

PlacesInit ==
    /\ PlacesIdle
    /\ ComfortIdle
    /\ SamplerIdle
    /\ StatsIdle
    /\ RouteIdle
    /\ DifficultyIdle
    /\ PanelIdle
    /\ SafetyIdle
    /\ AnalysisIdle
    /\ AltIdle
    /\ VoiceIdle

\* the lookups requests[from .. to] are handed to nearbySearch
StartLookups(plan, from, to) ==
    /\ placesRequests' = placesRequests \o SubSeq(plan, from, to)
    /\ placesLookups' =
          placesLookups \o [k \in 1..(to - from + 1) |-> Lookup("pending", <<>>)]

\* the promise of the operation settles
Settle(pc, value) ==
    /\ placesPc' = pc
    /\ placesResult' = value

\* a places operation is called.  findNearbyPlaces throws without a places
\* service; getPhotoSpots returns [] without one or for an empty route; the
\* midpoint operations return null for an empty route, and null from their
\* catch block when the first findNearbyPlaces throws
CallPlacesOperation ==
    \E op \in PlacesOperations :
      \E routePoints \in PlacesRoutes(op) :
        LET midPoint == PointAt(routePoints, MidPointIndex(Len(routePoints)))
            plan == PlacesPlan(op, routePoints, midPoint)
            started == LookupsStartedAtOnce(op)
        IN  /\ placesPc = "idle"
            /\ placesOp' = op
            /\ placesRoute' = routePoints
            /\ placesReady' = placesService
            /\ UNCHANGED <<photoSpots, exceptPlaces>>
            /\ CASE op = "findNearbyPlaces" /\ ~placesService ->
                        /\ Settle("rejected", Error("Places service not initialized"))
                        /\ UNCHANGED <<placesRequests, placesLookups>>
                 [] op = "getPhotoSpots"
                      /\ (~placesService \/ Len(routePoints) = 0) ->
                        /\ Settle("returned", <<>>)
                        /\ UNCHANGED <<placesRequests, placesLookups>>
                 [] op \in MidPointOperations /\ Len(routePoints) = 0 ->
                        /\ Settle("returned", null)
                        /\ UNCHANGED <<placesRequests, placesLookups>>
                 [] op \in MidPointOperations /\ Len(routePoints) > 0
                      /\ midPoint = undefined ->
                        /\ Settle("rejected", TypeError)
                        /\ UNCHANGED <<placesRequests, placesLookups>>
                 [] op \in MidPointOperations /\ Len(routePoints) > 0
                      /\ midPoint # undefined /\ ~placesService ->
                        /\ Settle("returned", null)
                        /\ UNCHANGED <<placesRequests, placesLookups>>
                 [] OTHER ->
                        /\ StartLookups(plan, 1, started)
                        /\ placesPc' = "awaiting"
                        /\ UNCHANGED placesResult

\* the nearbySearch callback of request i has run and the operation goes
\* on: getPhotoSpots takes the first two good spots of an answer, skips a
\* failed lookup, and searches at the next sampled point; the others give
\* up at the first failure and return once every lookup resolved.  An
\* answer that arrives after the operation returned is dropped.
NearbySearchAnswered(i, ok, places) ==
    /\ placesPc \in {"awaiting", "returned"}
    /\ i \in 1..Len(placesLookups)
    /\ placesLookups[i].state = "pending"
    /\ LET midPoint == PointAt(placesRoute, MidPointIndex(Len(placesRoute)))
           plan == PlacesPlan(placesOp, placesRoute, midPoint)
           lookups == [placesLookups EXCEPT ![i] =
                          IF ok THEN Lookup("resolved", places)
                          ELSE Lookup("rejected", <<>>)]
           spots == IF placesOp = "getPhotoSpots" /\ ok
                    THEN photoSpots \o SliceFromStart(GoodSpots(places), 2)
                    ELSE photoSpots
           isLast == Len(placesRequests) = Len(plan)
           allResolved == isLast /\ \A k \in 1..Len(lookups) : lookups[k].state = "resolved"
       IN  /\ photoSpots' = spots
           /\ UNCHANGED <<placesOp, placesRoute, placesReady, exceptPlaces>>
           /\ CASE placesPc = "returned" ->
                       /\ placesLookups' = lookups
                       /\ UNCHANGED <<placesPc, placesResult, placesRequests>>
                [] placesPc = "awaiting" /\ placesOp = "getPhotoSpots" /\ ~isLast ->
                       /\ placesRequests' =
                             Append(placesRequests, plan[Len(placesRequests) + 1])
                       /\ placesLookups' = Append(lookups, Lookup("pending", <<>>))
                       /\ UNCHANGED <<placesPc, placesResult>>
                [] placesPc = "awaiting" /\ placesOp = "findNearbyPlaces" /\ ~ok ->
                       /\ placesLookups' = lookups
                       /\ Settle("rejected", Error("Places search failed"))
                       /\ UNCHANGED placesRequests
                [] placesPc = "awaiting" /\ placesOp \in MidPointOperations /\ ~ok ->
                       /\ placesLookups' = lookups
                       /\ Settle("returned", null)
                       /\ UNCHANGED placesRequests
                [] placesPc = "awaiting"
                     /\ \/ placesOp = "getPhotoSpots" /\ isLast
                        \/ placesOp # "getPhotoSpots" /\ ok /\ allResolved ->
                       /\ placesLookups' = lookups
                       /\ Settle("returned",
                              PlacesValue(placesOp, placesRoute, lookups, spots))
                       /\ UNCHANGED placesRequests
                [] placesPc = "awaiting" /\ placesOp # "getPhotoSpots" /\ ok
                     /\ ~allResolved /\ ~isLast ->
                       /\ placesRequests' =
                             Append(placesRequests, plan[Len(placesRequests) + 1])
                       /\ placesLookups' = Append(lookups, Lookup("pending", <<>>))
                       /\ UNCHANGED <<placesPc, placesResult>>
                [] OTHER ->
                       /\ placesLookups' = lookups
                       /\ UNCHANGED <<placesPc, placesResult, placesRequests>>

\* nearbySearch calls back with status OK and results
NearbySearchOk ==
    \E i \in 1..Len(placesLookups) :
      \E places \in PlacesAnswers(placesOp) : NearbySearchAnswered(i, TRUE, places)

\* nearbySearch calls back with another status
NearbySearchFailed ==
    \E i \in 1..Len(placesLookups) : NearbySearchAnswered(i, FALSE, <<>>)

PlacesNext ==
    \/ SetMap
    \/ CallPlacesOperation
    \/ NearbySearchOk
    \/ NearbySearchFailed

PlacesSpec == PlacesInit /\ [][PlacesNext]_vars

(***************************************************************************)
(* C1 (as stated): for N <= L the sampler returns min(L, N) elements, the  *)
(* first being the path's first coordinate and the last the path's last,   *)
(* the targets N = 1 and N = 0 included.                                   *)
(***************************************************************************)
C1_AsStated ==
    (samplerPc = "returned" /\ sampleCount <= Len(path)) =>
        /\ Len(samples) = sampleCount
        /\ Len(samples) >= 1 =>
              /\ samples[1] = path[1]
              /\ samples[Len(samples)] = path[Len(path)]

(***************************************************************************)
(* C1 (amended): for 2 <= N <= L the sampler returns exactly N = min(L, N) *)
(* elements, the first being the path's first coordinate and the last the  *)
(* path's last; for N = 0 <= L it returns the empty sequence; for          *)
(* N = 1 < L it returns the one-element sequence holding undefined.        *)
(***************************************************************************)
C1_SamplerEndpoints ==
    (samplerPc = "returned" /\ sampleCount <= Len(path)) =>
        /\ Len(samples) = sampleCount
        /\ sampleCount >= 2 =>
              /\ samples[1] = path[1]
              /\ samples[Len(samples)] = path[Len(path)]
        /\ (sampleCount = 1 /\ Len(path) > 1) => samples = <<undefined>>

C1_Witness ==
    /\ samplerPc = "returned"
    /\ sampleCount >= 2
    /\ sampleCount < Len(path)
    /\ path[1] # path[Len(path)]
    /\ samples[1] = path[1]
    /\ samples[sampleCount] = path[Len(path)]

(***************************************************************************)
(* C5: for every point sequence, totalElevationGain - totalElevationLoss   *)
(* equals the elevation of the last point minus that of the first.         *)
(***************************************************************************)
C5_ElevationConservation ==
    (statsPc = "returned" /\ Len(points) >= 1) =>
        stats.totalElevationGain - stats.totalElevationLoss
            = points[Len(points)].elevation - points[1].elevation

C5_Witness ==
    /\ statsPc = "returned"
    /\ Len(points) >= 3
    /\ stats.totalElevationGain > 0
    /\ stats.totalElevationLoss > 0
    /\ points[Len(points)].elevation # points[1].elevation

(***************************************************************************)
(* C8: calculateRouteStats on the empty sequence returns the RouteStats    *)
(* whose nine fields are 0 and does not throw.                             *)
(***************************************************************************)
C8_EmptyIsAllZero ==
    (statsPc # "ready" /\ Len(points) = 0) =>
        /\ statsPc = "returned"
        /\ stats = RouteStats(0, 0, 0, 0, 0, Num(0), Num(0), Num(0), Num(0))

C8_Witness ==
    /\ statsPc = "returned"
    /\ Len(points) = 0
    /\ stats.totalDistance = 0

(***************************************************************************)
(* C9 (as stated): calculateRouteStats on a single point, whatever its     *)
(* elevation, returns the all-zero RouteStats and does not throw.          *)
(***************************************************************************)
C9_AsStated ==
    (statsPc # "ready" /\ Len(points) = 1) =>
        /\ statsPc = "returned"
        /\ stats = RouteStats(0, 0, 0, 0, 0, Num(0), Num(0), Num(0), Num(0))

(***************************************************************************)
(* C9 (amended): calculateRouteStats on a single point does not throw and  *)
(* returns gain, loss and the three grades 0, maxElevation and             *)
(* minElevation both the point's elevation, totalDistance the point's      *)
(* distance and estimatedTime = totalDistance / 1000 * 15.                 *)
(***************************************************************************)
C9_SinglePointStats ==
    (statsPc # "ready" /\ Len(points) = 1) =>
        /\ statsPc = "returned"
        /\ stats.totalElevationGain = 0
        /\ stats.totalElevationLoss = 0
        /\ stats.maxGrade = Num(0)
        /\ stats.minGrade = Num(0)
        /\ stats.averageGrade = Num(0)
        /\ stats.maxElevation = points[1].elevation
        /\ stats.minElevation = points[1].elevation
        /\ stats.totalDistance = points[1].distance
        /\ stats.estimatedTime = Norm(points[1].distance * 15, 1000)

C9_Witness ==
    /\ statsPc = "returned"
    /\ Len(points) = 1
    /\ points[1].elevation # 0
    /\ stats.maxElevation = points[1].elevation

(***************************************************************************)
(* C10: for every non-empty point sequence whose consecutive pairs all     *)
(* have distanceChange = 0, whatever the elevations, averageGrade,         *)
(* maxGrade and minGrade are 0, and so none is NaN or infinite.            *)
(***************************************************************************)
AllStationary(pts) ==
    \A i \in 1..(Len(pts) - 1) : pts[i + 1].distance - pts[i].distance = 0

C10_StationaryGradesZero ==
    (statsPc # "ready" /\ Len(points) >= 1 /\ AllStationary(points)) =>
        /\ statsPc = "returned"
        /\ stats.averageGrade = Num(0)
        /\ stats.maxGrade = Num(0)
        /\ stats.minGrade = Num(0)

C10_Witness ==
    /\ statsPc = "returned"
    /\ Len(points) >= 3
    /\ AllStationary(points)
    /\ points[2].elevation > points[1].elevation
    /\ points[3].elevation < points[2].elevation
    /\ stats.maxGrade = Num(0)

(***************************************************************************)
(* C4 (as stated): a route request produces a RouteData only when the      *)
(* elevation provider returned exactly as many results as locations were   *)
(* sent; a result set of another length makes the request fail.            *)
(***************************************************************************)
C4_AsStated ==
    routePc = "resolved" => Len(elevationData) = Len(pathPoints)

(***************************************************************************)
(* C6: raising exactly one of totalDistance, totalElevationGain and        *)
(* maxGrade of a RouteStats, the other two held fixed, never lowers the    *)
(* tier of calculateDifficulty in the order easy < moderate < hard <       *)
(* extreme.                                                                *)
(***************************************************************************)
DifficultyRank(tier) ==
    CASE tier = "easy" -> 0
      [] tier = "moderate" -> 1
      [] tier = "hard" -> 2
      [] tier = "extreme" -> 3

C6_DifficultyMonotonic ==
    Len(difficulty) = 2 =>
        DifficultyRank(difficulty[1]) <= DifficultyRank(difficulty[2])

C6_Witness ==
    /\ Len(difficulty) = 2
    /\ difficultyStats[1].totalDistance < difficultyStats[2].totalDistance
    /\ difficultyStats[1].totalElevationGain = difficultyStats[2].totalElevationGain
    /\ difficultyStats[1].maxGrade = difficultyStats[2].maxGrade
    /\ difficulty[1] = "moderate"
    /\ difficulty[2] = "hard"

(***************************************************************************)
(* C7: in the points createRoutePoints makes, the distance of point 0 is   *)
(* 0, distance never decreases with the index, and each point's distance   *)
(* exceeds its predecessor's by the length of the segment between them.    *)
(***************************************************************************)
C7_CumulativeDistance ==
    routePc = "resolved" =>
        LET pts == routeData.points
        IN  /\ Len(pts) = Len(elevationData)
            /\ Len(pts) >= 1 => pts[1].distance = 0
            /\ \A i \in 1..(Len(pts) - 1) :
                  /\ pts[i].distance <= pts[i + 1].distance
                  /\ pts[i + 1].distance - pts[i].distance
                        = computeDistanceBetween(elevationData[i].location,
                                                 elevationData[i + 1].location)

C7_Witness ==
    /\ routePc = "resolved"
    /\ Len(routeData.points) >= 3
    /\ routeData.points[1].distance = 0
    /\ routeData.points[2].distance > 0
    /\ routeData.points[3].distance > routeData.points[2].distance

(***************************************************************************)
(* C2 (as stated): the result of an older request is never written to the  *)
(* component state after a newer request has started: from the moment the  *)
(* request started last has completed, and so once every request has       *)
(* completed, the component shows the result of that request, in whatever  *)
(* order the responses arrive.                                             *)
(***************************************************************************)
C2_AsStated ==
    (/\ panelLatest > 0
     /\ panelInput # "none"
     /\ \A request \in panelInFlight : request.id # panelLatest) =>
        panelShownFrom = panelLatest

(***************************************************************************)
(* C3 (as stated): when some of the five lookups of getTravelComfortInfo   *)
(* fail and the others succeed, the call returns an object in which each   *)
(* failed category is the empty list and each successful category holds    *)
(* its truncated places; the result is not null.                           *)
(***************************************************************************)
C3_AsStated ==
    (/\ comfortPc = "returned"
     /\ Len(comfortRoute) > 0
     /\ \A c \in ComfortCategories : comfortLookups[c].state # "pending"
     /\ \E c \in ComfortCategories : comfortLookups[c].state = "resolved") =>
        /\ comfortInfo # null
        /\ \A c \in ComfortCategories :
              comfortInfo[c] =
                  IF comfortLookups[c].state = "resolved"
                  THEN SliceFromStart(comfortLookups[c].places, ComfortLimit(c))
                  ELSE <<>>

(***************************************************************************)
(* C14: the grade statistics of calculateRouteStats are taken over exactly *)
(* the segments with distanceChange > 0: averageGrade is the mean of       *)
(* |elevationChange / distanceChange * 100| over those segments (0 when    *)
(* there is none), maxGrade and minGrade are 0 or the grade of such a      *)
(* segment and bound the grades of all of them, and every segment, graded  *)
(* or not, adds its elevation change to the gain or to the loss.           *)
(***************************************************************************)
GradedSegments(pts) ==
    {i \in 1..(Len(pts) - 1) : pts[i + 1].distance - pts[i].distance > 0}

SegmentGrade(pts, i) ==
    Norm((pts[i + 1].elevation - pts[i].elevation) * 100,
         pts[i + 1].distance - pts[i].distance)

RECURSIVE SumOfAbsGrades(_, _)
SumOfAbsGrades(pts, segments) ==
    IF segments = {} THEN Zero
    ELSE LET i == CHOOSE s \in segments : TRUE
         IN  NumAdd(NumAbs(SegmentGrade(pts, i)),
                    SumOfAbsGrades(pts, segments \ {i}))

RECURSIVE SumOfClimbs(_, _)
SumOfClimbs(pts, i) ==
    IF i >= Len(pts) THEN 0
    ELSE (IF pts[i + 1].elevation > pts[i].elevation
          THEN pts[i + 1].elevation - pts[i].elevation ELSE 0)
         + SumOfClimbs(pts, i + 1)

RECURSIVE SumOfDescents(_, _)
SumOfDescents(pts, i) ==
    IF i >= Len(pts) THEN 0
    ELSE (IF pts[i + 1].elevation < pts[i].elevation
          THEN pts[i].elevation - pts[i + 1].elevation ELSE 0)
         + SumOfDescents(pts, i + 1)

C14_GradesOverMovingSegments ==
    (statsPc = "returned" /\ Len(points) >= 1) =>
        LET graded == GradedSegments(points)
        IN  /\ stats.averageGrade =
                   (IF graded = {} THEN Zero
                    ELSE NumDiv(SumOfAbsGrades(points, graded),
                                Num(Cardinality(graded))))
            /\ \A i \in graded :
                   /\ ~NumLess(stats.maxGrade, SegmentGrade(points, i))
                   /\ ~NumGreater(stats.minGrade, SegmentGrade(points, i))
            /\ \/ stats.maxGrade = Zero
               \/ \E i \in graded : stats.maxGrade = SegmentGrade(points, i)
            /\ \/ stats.minGrade = Zero
               \/ \E i \in graded : stats.minGrade = SegmentGrade(points, i)
            /\ stats.totalElevationGain = SumOfClimbs(points, 1)
            /\ stats.totalElevationLoss = SumOfDescents(points, 1)

\* the scenario of the claim: 100, 150, 100 m at 0, 1000, 2000 m
C14_Witness ==
    /\ statsPc = "returned"
    /\ points = <<RoutePoint(0, 0, 100, 0), RoutePoint(0, 0, 150, 1000),
                  RoutePoint(0, 0, 100, 2000)>>
    /\ stats.maxGrade = Num(5)
    /\ stats.minGrade = Num(-5)
    /\ stats.averageGrade = Num(5)
    /\ stats.totalElevationGain = 50
    /\ stats.totalElevationLoss = 50

(***************************************************************************)
(* C15: for every non-empty point sequence calculateRouteStats returns     *)
(* totalDistance equal to the last point's distance and estimatedTime =    *)
(* totalDistance / 1000 * 15 + totalElevationGain / 100 * 10, that is      *)
(* (3 * totalDistance + 20 * gain) / 200; neither the loss nor a grade     *)
(* enters the estimate.                                                    *)
(***************************************************************************)
C15_DistanceAndTime ==
    (statsPc = "returned" /\ Len(points) >= 1) =>
        /\ stats.totalDistance = points[Len(points)].distance
        /\ stats.estimatedTime =
               Norm(3 * points[Len(points)].distance
                        + 20 * SumOfClimbs(points, 1), 200)

\* totalDistance 2000 and gain 50 give 35 minutes, with a loss and grades
C15_Witness ==
    /\ statsPc = "returned"
    /\ Len(points) = 3
    /\ stats.totalDistance = 2000
    /\ stats.totalElevationGain = 50
    /\ stats.totalElevationLoss > 0
    /\ stats.estimatedTime = Num(35)

(***************************************************************************)
(* C16 (as stated): sampleRoutePoints returns the path unchanged when      *)
(* L <= N; otherwise element i of the output, i in 0..N-1, is the path     *)
(* coordinate at index round(i * (L - 1) / (N - 1)), so that the output is *)
(* an ordered subsequence of the path.                                     *)
(***************************************************************************)
\* the index of the claim, for count >= 2: the nearest integer, halves up
SampleIndex(i, length, count) ==
    (2 * i * (length - 1) + (count - 1)) \div (2 * (count - 1))

IsOrderedSubsequence(sub, full) ==
    \E f \in [1..Len(sub) -> 1..Len(full)] :
        /\ \A k \in 1..Len(sub) : sub[k] = full[f[k]]
        /\ \A k \in 1..(Len(sub) - 1) : f[k] <= f[k + 1]

C16_AsStated ==
    samplerPc = "returned" =>
        /\ Len(path) <= sampleCount => samples = path
        /\ Len(path) > sampleCount =>
               /\ Len(samples) = sampleCount
               /\ sampleCount >= 2 =>
                      \A i \in 0..(sampleCount - 1) :
                          samples[i + 1] =
                              path[SampleIndex(i, Len(path), sampleCount) + 1]
               /\ IsOrderedSubsequence(samples, path)

(***************************************************************************)
(* C16 (amended): sampleRoutePoints returns the path unchanged when        *)
(* L <= N; when L > N >= 2 element i of the output is the path coordinate  *)
(* at index round(i * (L - 1) / (N - 1)), these indices lie in 0..L-1 and  *)
(* do not decrease, so the output is an ordered subsequence of the path;   *)
(* when L > N = 0 the output is empty, and when L > N = 1 it is the one    *)
(* element undefined, which is no coordinate of the path.                  *)
(***************************************************************************)
C16_SampledIndices ==
    samplerPc = "returned" =>
        /\ Len(path) <= sampleCount => samples = path
        /\ (Len(path) > sampleCount /\ sampleCount >= 2) =>
               /\ Len(samples) = sampleCount
               /\ \A i \in 0..(sampleCount - 1) :
                      /\ SampleIndex(i, Len(path), sampleCount) \in 0..(Len(path) - 1)
                      /\ samples[i + 1] =
                             path[SampleIndex(i, Len(path), sampleCount) + 1]
               /\ \A i \in 0..(sampleCount - 2) :
                      SampleIndex(i, Len(path), sampleCount)
                          <= SampleIndex(i + 1, Len(path), sampleCount)
               /\ IsOrderedSubsequence(samples, path)
        /\ (Len(path) > sampleCount /\ sampleCount = 0) => samples = <<>>
        /\ (Len(path) > sampleCount /\ sampleCount = 1) => samples = <<undefined>>

\* a path sampled at an index that is rounded up from a half: L = 4, N = 3
C16_Witness ==
    /\ samplerPc = "returned"
    /\ Len(path) = 4
    /\ sampleCount = 3
    /\ path[2] # path[3]
    /\ samples = <<path[1], path[3], path[4]>>

(***************************************************************************)
(* C12: calculateDifficulty returns the tier of the additive score:        *)
(* distance adds 3 above 20 km, else 2 above 10 km, else 1 above 5 km;     *)
(* elevation gain adds 3 above 1000 m, else 2 above 500 m, else 1 above    *)
(* 200 m; grade adds 3 above 20, else 2 above 15, else 1 above 10; the     *)
(* tier is extreme from 7, hard from 5, moderate from 3, easy below; a     *)
(* quantity equal to a threshold does not exceed it.                       *)
(***************************************************************************)
\* 3, 2, 1 or 0 for a quantity p / q against three descending thresholds
StepsAbove(p, q, high, middle, low) ==
    IF p > high * q THEN 3
    ELSE IF p > middle * q THEN 2
    ELSE IF p > low * q THEN 1
    ELSE 0

AdditiveScore(st) ==
    StepsAbove(st.totalDistance, 1000, 20, 10, 5)
    + StepsAbove(st.totalElevationGain, 1, 1000, 500, 200)
    + StepsAbove(st.maxGrade.n, st.maxGrade.d, 20, 15, 10)

TierOfScore(score) ==
    CASE score >= 7 -> "extreme"
      [] score \in {5, 6} -> "hard"
      [] score \in {3, 4} -> "moderate"
      [] OTHER -> "easy"

C12_DifficultyTable ==
    \A k \in 1..Len(difficulty) :
        difficulty[k] = TierOfScore(AdditiveScore(difficultyStats[k]))

\* 25000 m, 1200 m of gain and a grade of 22 give extreme, after a call
\* with the grade on its threshold of 20
C12_Witness ==
    /\ Len(difficulty) = 2
    /\ difficultyStats[2].totalDistance = 25000
    /\ difficultyStats[2].totalElevationGain = 1200
    /\ difficultyStats[2].maxGrade = Num(22)
    /\ difficulty[2] = "extreme"
    /\ difficultyStats[1].maxGrade = Num(20)
    /\ difficulty[1] = "extreme"

(***************************************************************************)
(* C13: the safety score is 100 minus the grade penalty (20 above a        *)
(* maxGrade of 20, else 15 above 15, else 10 above 10), minus the gain     *)
(* penalty (15 above 1000 m, else 10 above 500 m), minus the distance      *)
(* penalty (10 above 20000 m, else 5 above 10000 m), and never below 0.    *)
(***************************************************************************)
\* the penalty of the first tier of a descending list that p / q exceeds
TierPenalty(p, q, tiers) ==
    LET exceeded == {k \in 1..Len(tiers) : p > tiers[k][1] * q}
    IN  IF exceeded = {} THEN 0
        ELSE tiers[CHOOSE k \in exceeded : \A j \in exceeded : k <= j][2]

C13_SafetyScore ==
    safetyPc = "rendered" =>
        LET raw == 100
                   - TierPenalty(safetyStats.maxGrade.n, safetyStats.maxGrade.d,
                                 <<<<20, 20>>, <<15, 15>>, <<10, 10>>>>)
                   - TierPenalty(safetyStats.totalElevationGain, 1,
                                 <<<<1000, 15>>, <<500, 10>>>>)
                   - TierPenalty(safetyStats.totalDistance, 1,
                                 <<<<20000, 10>>, <<10000, 5>>>>)
        IN  /\ safetyScore = (IF raw < 0 THEN 0 ELSE raw)
            /\ safetyScore >= 0

\* 25000 m, 1200 m of gain and a maxGrade of 22 score 55
C13_Witness ==
    /\ safetyPc = "rendered"
    /\ safetyStats.totalDistance = 25000
    /\ safetyStats.totalElevationGain = 1200
    /\ safetyStats.maxGrade = Num(22)
    /\ safetyScore = 55

(***************************************************************************)
(* C17: the hiking classifier returns expert if the distance exceeds 15 km *)
(* or the gain 800 m or the max grade 25; otherwise advanced if they       *)
(* exceed 10 km, 500 m or 20; otherwise intermediate if they exceed 5 km,  *)
(* 300 m or 15; otherwise beginner.  The most severe level one quantity    *)
(* reaches wins.  The quantities are read off the route: the last point's  *)
(* distance, the sum of the climbs, and the grades of the segments with    *)
(* distanceChange > 0.                                                     *)
(***************************************************************************)
\* some segment with distanceChange > 0 climbs at more than percent
ClimbsAbove(pts, percent) ==
    \E i \in GradedSegments(pts) :
        (pts[i + 1].elevation - pts[i].elevation) * 100
            > percent * (pts[i + 1].distance - pts[i].distance)

ReachesLevel(pts, metresOfDistance, metresOfGain, percent) ==
    \/ pts[Len(pts)].distance > metresOfDistance
    \/ SumOfClimbs(pts, 1) > metresOfGain
    \/ ClimbsAbove(pts, percent)

HikingLevel(pts) ==
    CASE ReachesLevel(pts, 15000, 800, 25) -> "expert"
      [] ~ReachesLevel(pts, 15000, 800, 25)
         /\ ReachesLevel(pts, 10000, 500, 20) -> "advanced"
      [] ~ReachesLevel(pts, 10000, 500, 20)
         /\ ReachesLevel(pts, 5000, 300, 15) -> "intermediate"
      [] OTHER -> "beginner"

C17_HikingLevels ==
    analysisPc = "hiking" => hikingInfo.difficulty = HikingLevel(analysisRoute)

\* expert on the gain alone: a short route without a grade
C17_Witness ==
    /\ analysisPc = "hiking"
    /\ hikingInfo.difficulty = "expert"
    /\ analysisRoute[Len(analysisRoute)].distance <= 5000
    /\ ~ClimbsAbove(analysisRoute, 15)
    /\ SumOfClimbs(analysisRoute, 1) > 800

(***************************************************************************)
(* C18: getTrafficInfo counts the consecutive pairs of points whose        *)
(* absolute grade exceeds 15 percent (|elevation change| * 100 over        *)
(* |distance change|; an elevation change over no distance is an infinite  *)
(* grade) and returns the steep-sections caution exactly when the count    *)
(* exceeds 5, and the heavy-traffic alert exactly when the route has more  *)
(* than 50 points, whatever the count.                                     *)
(***************************************************************************)
SteepPairs(pts) ==
    {i \in 1..(Len(pts) - 1) :
        Abs(pts[i + 1].elevation - pts[i].elevation) * 100
            > 15 * Abs(pts[i + 1].distance - pts[i].distance)}

Holds(alerts, alert) == \E k \in 1..Len(alerts) : alerts[k] = alert

C18_TrafficAlerts ==
    analysisPc = "traffic" =>
        /\ Holds(trafficAlerts, "Multiple steep sections - allow extra time")
               <=> Cardinality(SteepPairs(analysisRoute)) > 5
        /\ Holds(trafficAlerts, "Heavy traffic expected during peak hours")
               <=> Len(analysisRoute) > 50
        /\ \A k \in 1..Len(trafficAlerts) :
               trafficAlerts[k] \in {"Multiple steep sections - allow extra time",
                                     "Heavy traffic expected during peak hours"}
        /\ Len(trafficAlerts) <= 2

\* six steep segments, climbs and descents, on a route of at most 50 points
C18_Witness ==
    /\ analysisPc = "traffic"
    /\ Len(analysisRoute) <= 50
    /\ Cardinality(SteepPairs(analysisRoute)) = 6
    /\ trafficAlerts = <<"Multiple steep sections - allow extra time">>

(***************************************************************************)
(* C19: analyzeHikingTerrain returns, in this order, High altitude iff     *)
(* maxElevation > 2000, Steep climbs iff maxGrade > 20, Long distance iff  *)
(* totalDistance > 10000, Significant elevation gain iff gain > 500; the   *)
(* result is never empty and is the single tag Moderate terrain iff none   *)
(* of the four holds.                                                      *)
(***************************************************************************)
TerrainTags ==
    <<"High altitude", "Steep climbs", "Long distance", "Significant elevation gain">>

TerrainTagHolds(pts, k) ==
    CASE k = 1 -> \E i \in 1..Len(pts) : pts[i].elevation > 2000
      [] k = 2 -> ClimbsAbove(pts, 20)
      [] k = 3 -> pts[Len(pts)].distance > 10000
      [] k = 4 -> SumOfClimbs(pts, 1) > 500

C19_TerrainTags ==
    analysisPc = "hiking" =>
        LET terrain == hikingInfo.terrainAnalysis
            noneHolds == \A k \in 1..4 : ~TerrainTagHolds(analysisRoute, k)
        IN  /\ Len(terrain) > 0
            /\ \A k \in 1..4 :
                   Holds(terrain, TerrainTags[k]) <=> TerrainTagHolds(analysisRoute, k)
            /\ \A i, j \in 1..Len(terrain) :
                   i < j =>
                       \E a, b \in 1..4 :
                           a < b /\ terrain[i] = TerrainTags[a] /\ terrain[j] = TerrainTags[b]
            /\ terrain = <<"Moderate terrain">> <=> noneHolds
            /\ Holds(terrain, "Moderate terrain") => Len(terrain) = 1

\* a route with all four tags
C19_Witness ==
    /\ analysisPc = "hiking"
    /\ hikingInfo.terrainAnalysis = TerrainTags

(***************************************************************************)
(* C20 (as stated): for the RouteStats calculateRouteStats makes of a      *)
(* route (first distance 0, distances not decreasing), the grade factor of *)
(* calculateDifficulty follows the maximum absolute grade of the segments, *)
(* climbs and descents alike: the tier is that of the distance score plus  *)
(* the gain score plus 3, 2 or 1 for a steepest segment above 20, 15 or    *)
(* 10 percent in either direction.                                         *)
(***************************************************************************)
IsRoute(pts) ==
    /\ Len(pts) >= 1
    /\ pts[1].distance = 0
    /\ \A i \in 1..(Len(pts) - 1) : pts[i].distance <= pts[i + 1].distance

SteeperThan(pts, percent) ==
    \E i \in GradedSegments(pts) :
        Abs(pts[i + 1].elevation - pts[i].elevation) * 100
            > percent * (pts[i + 1].distance - pts[i].distance)

AbsoluteGradeScore(pts) ==
    IF SteeperThan(pts, 20) THEN 3
    ELSE IF SteeperThan(pts, 15) THEN 2
    ELSE IF SteeperThan(pts, 10) THEN 1
    ELSE 0

C20_AsStated ==
    (analysisPc = "rated" /\ IsRoute(analysisRoute)) =>
        routeDifficulty =
            TierOfScore(StepsAbove(analysisRoute[Len(analysisRoute)].distance,
                                   1000, 20, 10, 5)
                        + StepsAbove(SumOfClimbs(analysisRoute, 1), 1, 1000, 500, 200)
                        + AbsoluteGradeScore(analysisRoute))

(***************************************************************************)
(* C11 (as stated): when the directions provider or the elevation provider *)
(* fails during getRouteAlternatives or getAccessibleRoutes (as during     *)
(* calculateRoute), the promise the caller holds rejects; it never         *)
(* fulfils with a value such as an empty list.                             *)
(***************************************************************************)
C11_AsStated ==
    /\ altFailure # "none" => altPc = "rejected"
    /\ (routePc \in {"resolved", "rejected"} /\ routeData = null) =>
           routePc = "rejected"

(***************************************************************************)
(* C24: for every non-empty point sequence calculateRouteStats returns     *)
(* maxElevation equal to the greatest and minElevation equal to the least  *)
(* elevation over all points, point 0 included.                            *)
(***************************************************************************)
C24_ElevationExtremes ==
    (statsPc = "returned" /\ Len(points) >= 1) =>
        /\ \A k \in 1..Len(points) :
               /\ stats.minElevation <= points[k].elevation
               /\ points[k].elevation <= stats.maxElevation
        /\ \E k \in 1..Len(points) : stats.maxElevation = points[k].elevation
        /\ \E k \in 1..Len(points) : stats.minElevation = points[k].elevation

\* the greatest elevation is that of point 0 alone, the least lies inside
C24_Witness ==
    /\ statsPc = "returned"
    /\ Len(points) = 3
    /\ points[1].elevation > points[2].elevation
    /\ points[2].elevation < points[3].elevation
    /\ points[1].elevation > points[3].elevation
    /\ stats.maxElevation = points[1].elevation
    /\ stats.minElevation = points[2].elevation

(***************************************************************************)
(* C28: for every point sequence calculateRouteStats returns maxGrade >= 0 *)
(* and minGrade <= 0, and totalElevationGain, totalElevationLoss and       *)
(* averageGrade >= 0; a route whose segments only descend reports          *)
(* maxGrade = 0 and one whose segments only climb reports minGrade = 0.    *)
(***************************************************************************)
OnlyDescends(pts) ==
    \A i \in 1..(Len(pts) - 1) : pts[i + 1].elevation <= pts[i].elevation

OnlyClimbs(pts) ==
    \A i \in 1..(Len(pts) - 1) : pts[i + 1].elevation >= pts[i].elevation

C28_GradeSigns ==
    statsPc = "returned" =>
        /\ IsFinite(stats.maxGrade) /\ stats.maxGrade.n >= 0
        /\ IsFinite(stats.minGrade) /\ stats.minGrade.n <= 0
        /\ IsFinite(stats.averageGrade) /\ stats.averageGrade.n >= 0
        /\ stats.totalElevationGain >= 0
        /\ stats.totalElevationLoss >= 0
        /\ OnlyDescends(points) => stats.maxGrade = Zero
        /\ OnlyClimbs(points) => stats.minGrade = Zero

\* a route that descends over distance and never climbs
C28_Witness ==
    /\ statsPc = "returned"
    /\ Len(points) = 3
    /\ OnlyDescends(points)
    /\ NumLess(stats.minGrade, Zero)
    /\ stats.maxGrade = Zero
    /\ stats.totalElevationLoss > 0

(***************************************************************************)
(* C27: for every sample target N >= 2 and path length L > N the indices   *)
(* sampleRoutePoints selects are strictly increasing and lie in 0..L-1:    *)
(* no coordinate is selected twice and no selected element is undefined.   *)
(***************************************************************************)
IsStrictSubsequence(sub, full) ==
    \E f \in [1..Len(sub) -> 1..Len(full)] :
        /\ \A k \in 1..Len(sub) : sub[k] = full[f[k]]
        /\ \A k \in 1..(Len(sub) - 1) : f[k] < f[k + 1]

C27_StrictlyIncreasingIndices ==
    (samplerPc = "returned" /\ sampleCount >= 2 /\ Len(path) > sampleCount) =>
        /\ Len(samples) = sampleCount
        /\ \A k \in 1..Len(samples) : samples[k] # undefined
        /\ IsStrictSubsequence(samples, path)
        /\ \A i \in 0..(sampleCount - 1) :
               /\ SampleIndex(i, Len(path), sampleCount) \in 0..(Len(path) - 1)
               /\ samples[i + 1] = path[SampleIndex(i, Len(path), sampleCount) + 1]
        /\ \A i \in 0..(sampleCount - 2) :
               SampleIndex(i, Len(path), sampleCount)
                   < SampleIndex(i + 1, Len(path), sampleCount)

\* two samples of a path of three distinct coordinates: its two ends
C27_Witness ==
    /\ samplerPc = "returned"
    /\ sampleCount = 2
    /\ Len(path) = 3
    /\ path[1] # path[2] /\ path[2] # path[3] /\ path[1] # path[3]
    /\ samples = <<path[1], path[3]>>

(***************************************************************************)
(* C21 (as stated): getTrafficInfo never counts a segment whose distance   *)
(* change is 0 as steep, whatever its elevation change: the steep-sections *)
(* caution is returned only when more than 5 segments of non-zero distance *)
(* change are steep, and never for a route whose segments all have a       *)
(* distance change of 0.                                                   *)
(***************************************************************************)
C21_AsStated ==
    (analysisPc = "traffic"
     /\ Holds(trafficAlerts, "Multiple steep sections - allow extra time")) =>
        /\ Cardinality({i \in SteepPairs(analysisRoute) :
               analysisRoute[i + 1].distance # analysisRoute[i].distance}) > 5
        /\ ~AllStationary(analysisRoute)

(***************************************************************************)
(* C22: within one calculateRoute call the stages run strictly forward and *)
(* each provider is called at most once: the directions request comes      *)
(* first, the one elevation request only after the directions request      *)
(* succeeded, the statistics only after the elevation request succeeded;   *)
(* after a directions failure nothing more is requested, and no request is *)
(* repeated.                                                               *)
(***************************************************************************)
IsPrefix(short, long) ==
    /\ Len(short) <= Len(long)
    /\ \A k \in 1..Len(short) : short[k] = long[k]

ForwardRuns ==
    {<<"directions request", "directions OK", "elevation request", "elevation OK",
       "statistics">>,
     <<"directions request", "directions OK", "elevation request", "elevation failed">>,
     <<"directions request", "directions failed">>}

C22_StagesRunForward ==
    /\ \E run \in ForwardRuns : IsPrefix(routeTrace, run)
    /\ routePc \in {"resolved", "rejected"} => routeTrace \in ForwardRuns
    /\ routeData # null =>
           routeTrace[Len(routeTrace)] = "statistics"

\* a call that went through every stage, and the statistics came last
C22_Witness ==
    /\ routePc = "resolved"
    /\ routeData # null
    /\ Len(routeData.points) >= 2
    /\ routeTrace = <<"directions request", "directions OK", "elevation request",
                      "elevation OK", "statistics">>

(***************************************************************************)
(* C23: getRouteAlternatives processes the alternatives one after another: *)
(* at most one elevation request is in flight at any time, the request for *)
(* alternative i + 1 is issued only after the response for alternative i   *)
(* arrived, at most 3 alternatives are processed, and the returned list    *)
(* keeps the provider's order of the routes.                               *)
(***************************************************************************)
CoordinatesOf(pts) == [k \in 1..Len(pts) |-> LatLng(pts[k].lat, pts[k].lng)]

C23_SequentialAlternatives ==
    altKind = "getRouteAlternatives" =>
        /\ Cardinality(altInFlight) <= 1
        /\ \A i \in altInFlight :
               /\ i = altRequests - 1
               /\ Len(altAlternatives) = i
        /\ altRequests <= 3
        /\ Len(altAlternatives) <= altRequests
        /\ (altPc = "fulfilled" /\ altFailure = "none") =>
               /\ Len(altResult) = (IF Len(altRoutes) > 3 THEN 3 ELSE Len(altRoutes))
               /\ \A k \in 1..Len(altResult) :
                      CoordinatesOf(altResult[k].points) = altRoutes[k]

\* four routes offered in an order that shows, three returned
C23_Witness ==
    /\ altKind = "getRouteAlternatives"
    /\ altPc = "fulfilled"
    /\ Len(altRoutes) = 4
    /\ Len(altRoutes[1]) # Len(altRoutes[2])
    /\ Len(altResult) = 3
    /\ altRequests = 3

(***************************************************************************)
(* C25 (as stated): in each fetching panel the loading flag is true in     *)
(* every state in which at least one of the panel's fetches is in flight,  *)
(* also when two fetches overlap and the first completes before the        *)
(* second.                                                                 *)
(***************************************************************************)
C25_AsStated == panelInFlight # {} => panelLoading

(***************************************************************************)
(* C26 (as stated): in VoiceGuidance, after any sequence of route changes, *)
(* nextInstruction and previousInstruction, instructionIndex is never      *)
(* negative, it is at most instructions.length - 1 whenever instructions   *)
(* is non-empty, and currentInstruction is instructions[instructionIndex]. *)
(* The code does not keep this: see C26 in the results.                    *)
(***************************************************************************)
C26_AsStated ==
    /\ instructionIndex >= 0
    /\ Len(instructions) > 0 =>
          /\ instructionIndex <= Len(instructions) - 1
          /\ currentInstruction = InstructionAt(instructions, instructionIndex)

(***************************************************************************)
(* C29: getPhotoSpots issues at most 5 lookups, for the route points at    *)
(* indices 0, 10, 20, 30, 40, one after another; it keeps at most 2        *)
(* qualifying places (rating >= 4.0 and at least one photo) per lookup and *)
(* returns at most 8; a failed lookup contributes nothing and neither      *)
(* stops the remaining lookups nor fails the operation; for an empty route *)
(* or before setMap it returns [] without any lookup.                      *)
(***************************************************************************)
Qualifies(place) ==
    /\ place.rating # undefined
    /\ place.rating.d # 0
    /\ place.rating.n >= 4 * place.rating.d
    /\ place.photos # undefined
    /\ place.photos.length >= 1

\* what the lookups answered so far contribute, in the order of the lookups
RECURSIVE KeptSpots(_, _)
KeptSpots(lookups, k) ==
    IF k = 0 THEN <<>>
    ELSE KeptSpots(lookups, k - 1) \o
         (IF lookups[k].state = "resolved"
          THEN LET good == SelectSeq(lookups[k].places, Qualifies)
               IN  SubSeq(good, 1, IF Len(good) < 2 THEN Len(good) ELSE 2)
          ELSE <<>>)

\* the number of lookups a route of n points calls for
PhotoLookups(n) == IF (n + 9) \div 10 < 5 THEN (n + 9) \div 10 ELSE 5

C29_PhotoSpots ==
    placesOp = "getPhotoSpots" =>
        LET n == Len(placesRoute)
            issued == Len(placesRequests)
            kept == KeptSpots(placesLookups, issued)
        IN  /\ placesPc # "rejected"
            /\ issued <= 5
            /\ \A k \in 1..issued :
                  /\ 10 * (k - 1) \in {0, 10, 20, 30, 40}
                  /\ 10 * (k - 1) < n
                  /\ placesRequests[k].location =
                        LatLng(placesRoute[10 * (k - 1) + 1].lat,
                               placesRoute[10 * (k - 1) + 1].lng)
                  /\ placesRequests[k].type = "tourist_attraction"
                  /\ placesLookups[k].state = "pending" => k = issued
            /\ photoSpots = kept
            /\ (~placesReady \/ n = 0) =>
                  /\ placesPc = "returned"
                  /\ placesResult = <<>>
                  /\ issued = 0
            /\ (placesReady /\ n > 0 /\ placesPc = "returned") =>
                  /\ issued = PhotoLookups(n)
                  /\ \A k \in 1..issued : placesLookups[k].state # "pending"
                  /\ Len(placesResult) <= 8
                  /\ placesResult =
                        SubSeq(kept, 1, IF Len(kept) < 8 THEN Len(kept) ELSE 8)

\* five lookups were made for a route of 51 points, the second failed, and
\* the four others filled the eight places returned
C29_Witness ==
    /\ placesOp = "getPhotoSpots"
    /\ placesPc = "returned"
    /\ Len(placesRoute) = 51
    /\ Len(placesRequests) = 5
    /\ placesLookups[2].state = "rejected"
    /\ Len(placesResult) = 8

(***************************************************************************)
(* C30: without a preceding setMap, findNearbyPlaces fails with 'Places    *)
(* service not initialized' and the provider is not contacted, and         *)
(* getHikingTrailInfo, getTravelComfortInfo and getEmergencyInfo return    *)
(* null; for an empty route they return null without a lookup; after       *)
(* setMap every lookup of theirs is made at the route point of index       *)
(* floor(n / 2), which is a valid index for every n >= 1.                  *)
(***************************************************************************)
\* index is floor(n / 2)
IsHalfRoundedDown(index, n) == 2 * index <= n /\ n < 2 * index + 2

C30_PlacesNeedSetMap ==
    LET n == Len(placesRoute)
    IN  /\ (placesOp = "findNearbyPlaces" /\ ~placesReady) =>
              /\ placesPc = "rejected"
              /\ placesResult = [error |-> "Places service not initialized"]
              /\ placesRequests = <<>>
        /\ placesOp \in {"getHikingTrailInfo", "getTravelComfortInfo",
                         "getEmergencyInfo"} =>
              /\ placesPc # "rejected"
              /\ (~placesReady \/ n = 0) =>
                    /\ placesPc = "returned"
                    /\ placesResult = null
                    /\ placesRequests = <<>>
              /\ (placesReady /\ n >= 1) =>
                    /\ Len(placesRequests) >= 1
                    /\ \A k \in 1..Len(placesRequests) :
                          \E index \in 0..(n - 1) :
                              /\ IsHalfRoundedDown(index, n)
                              /\ placesRequests[k].location =
                                    LatLng(placesRoute[index + 1].lat,
                                           placesRoute[index + 1].lng)

\* getEmergencyInfo after setMap on a route of five points: both lookups
\* were made around point 2 and the info was returned
C30_Witness ==
    /\ placesOp = "getEmergencyInfo"
    /\ placesReady
    /\ Len(placesRoute) = 5
    /\ Len(placesRequests) = 2
    /\ placesRequests[2].location = LatLng(placesRoute[3].lat, placesRoute[3].lng)
    /\ placesPc = "returned"
    /\ placesResult # null

====
